---- MODULE Spec2Model ----
(***************************************************************************)
(* Request gate of the InstaFit backend (rate_limiter.py, config.py and    *)
(* the routes of app.py that use it): client identification, bot           *)
(* classification, the sliding-window rate limiter and the decorator that  *)
(* chains them.  Strings that the code inspects (user agents, forwarded    *)
(* headers, identities) are sequences of one-character strings, so that    *)
(* lower(), strip(), split() and the substring test are computed.          *)
(***************************************************************************)
EXTENDS Integers, Sequences, FiniteSets, TLC

VARIABLES
  RATE_LIMIT_CONFIG,      \* config.RATE_LIMIT_CONFIG
  BOT_PROTECTION_CONFIG,  \* config.BOT_PROTECTION_CONFIG
  storage,                \* rate_limiter.storage: identity -> three deques
  clock,                  \* the value time.time() returns
  last,                   \* history: the step just taken by the one-at-a-time gate
  threads,                \* the server's worker threads: where each is in the decorator
  started                 \* the number of requests the worker threads have taken

vars == <<RATE_LIMIT_CONFIG, BOT_PROTECTION_CONFIG, storage, clock, last, threads, started>>

(***************************************************************************)
(* Bounds of the exploration.                                              *)
(***************************************************************************)
MaxClock == 5
\* the worker threads of the threaded server
NumThreads == 2
\* the last clock value and the number of requests of the threaded exploration
MaxThreadClock == 2
MaxStarted == 3

(***************************************************************************)
(* String literals used as inputs.                                         *)
(***************************************************************************)
UA_EMPTY == <<>>
UA_BLANK == <<" ", " ">>
UA_CURL == <<"c", "u", "r", "l", "/", "7", ".", "6", "8", ".", "0">>
UA_PYREQ == <<"p", "y", "t", "h", "o", "n", "-", "r", "e", "q", "u", "e", "s", "t", "s", "/", "2", ".", "3", "1", ".", "0">>
UA_MOZILLA == <<"M", "o", "z", "i", "l", "l", "a", "/", "5", ".", "0", " ", "(", "W", "i", "n", "d", "o", "w", "s", " ", "N", "T", " ", "1", "0", ".", "0", ";", " ", "W", "i", "n", "6", "4", ";", " ", "x", "6", "4", ")", " ", "A", "p", "p", "l", "e", "W", "e", "b", "K", "i", "t", "/", "5", "3", "7", ".", "3", "6">>
UA_TEST == <<"I", "n", "s", "t", "a", "F", "i", "t", "-", "T", "e", "s", "t", "-", "C", "l", "i", "e", "n", "t", "/", "1", ".", "0">>
UA_EXT == <<"I", "n", "s", "t", "a", "F", "i", "t", "-", "E", "x", "t", "e", "n", "s", "i", "o", "n", "/", "1", ".", "0">>
UA_EXT_BOT == <<"I", "n", "s", "t", "a", "F", "i", "t", "-", "E", "x", "t", "e", "n", "s", "i", "o", "n", "/", "1", ".", "0", " ", "(", "P", "y", "t", "h", "o", "n", ")">>
UA_UPPER_BOT == <<"W", "G", "E", "T", "/", "1", ".", "2", "1">>
IP_A == <<"9", ".", "9", ".", "9", ".", "9">>
IP_B == <<"6", ".", "6", ".", "6", ".", "6">>
XFF_AB == <<" ", "9", ".", "9", ".", "9", ".", "9", " ", ",", " ", "6", ".", "6", ".", "6", ".", "6">>
KEY_TEST == <<"t", "e", "s", "t", "-", "k", "e", "y">>
BEARER == <<"B", "e", "a", "r", "e", "r", " ">>
AUTH_TEST == <<"B", "e", "a", "r", "e", "r", " ", "t", "e", "s", "t", "-", "k", "e", "y">>
AUTH_WRONG == <<"B", "e", "a", "r", "e", "r", " ", "w", "r", "o", "n", "g">>
XFF_LEADING_COMMA == <<",", "6", ".", "6", ".", "6", ".", "6">>
XFF_GARBLED == <<"n", "o", "t", " ", "a", "n", " ", "i", "p">>


(***************************************************************************)
(* Python string primitives.                                               *)
(***************************************************************************)
\* str.lower() on one character: the ASCII capitals map to their small letters
ToLower ==
  [c \in {"A","B","C","D","E","F","G","H","I","J","K","L","M",
          "N","O","P","Q","R","S","T","U","V","W","X","Y","Z"} |->
     CASE c = "A" -> "a" [] c = "B" -> "b" [] c = "C" -> "c" [] c = "D" -> "d"
       [] c = "E" -> "e" [] c = "F" -> "f" [] c = "G" -> "g" [] c = "H" -> "h"
       [] c = "I" -> "i" [] c = "J" -> "j" [] c = "K" -> "k" [] c = "L" -> "l"
       [] c = "M" -> "m" [] c = "N" -> "n" [] c = "O" -> "o" [] c = "P" -> "p"
       [] c = "Q" -> "q" [] c = "R" -> "r" [] c = "S" -> "s" [] c = "T" -> "t"
       [] c = "U" -> "u" [] c = "V" -> "v" [] c = "W" -> "w" [] c = "X" -> "x"
       [] c = "Y" -> "y" [] c = "Z" -> "z"]

LowerChar(c) == IF c \in DOMAIN ToLower THEN ToLower[c] ELSE c

\* str.lower()
lower(s) == [i \in 1..Len(s) |-> LowerChar(s[i])]

\* the characters str.strip() removes
Whitespace == {" ", "\t", "\n", "\r"}

RECURSIVE lstrip(_)
lstrip(s) == IF s # <<>> /\ Head(s) \in Whitespace THEN lstrip(Tail(s)) ELSE s

RECURSIVE rstrip(_)
rstrip(s) ==
  IF s # <<>> /\ s[Len(s)] \in Whitespace THEN rstrip(SubSeq(s, 1, Len(s) - 1)) ELSE s

\* str.strip()
strip(s) == rstrip(lstrip(s))

\* s.split(',')[0]: everything before the first comma
RECURSIVE split_first(_)
split_first(s) ==
  IF s = <<>> \/ Head(s) = "," THEN <<>> ELSE <<Head(s)>> \o split_first(Tail(s))

\* the substring test  pat in s
\* str.replace(pat, ""): every occurrence of pat, left to right, is removed
RECURSIVE remove_all(_, _)
remove_all(pat, s) ==
  IF Len(s) < Len(pat) THEN s
  ELSE IF SubSeq(s, 1, Len(pat)) = pat
       THEN remove_all(pat, SubSeq(s, Len(pat) + 1, Len(s)))
       ELSE <<Head(s)>> \o remove_all(pat, Tail(s))

contains(pat, s) ==
  \/ pat = <<>>
  \/ \E i \in 0..(Len(s) - Len(pat)) :
       s[i + 1] = pat[1] /\ SubSeq(s, i + 1, i + Len(pat)) = pat

(***************************************************************************)
(* Configuration (config.py).                                              *)
(***************************************************************************)
bot_user_agent_patterns ==
  <<
    <<"b", "o", "t">>,
    <<"c", "r", "a", "w", "l", "e", "r">>,
    <<"s", "p", "i", "d", "e", "r">>,
    <<"s", "c", "r", "a", "p", "e", "r">>,
    <<"s", "c", "r", "a", "p", "e", "r">>,
    <<"c", "r", "a", "w", "l", "e", "r">>,
    <<"p", "y", "t", "h", "o", "n">>,
    <<"c", "u", "r", "l">>,
    <<"w", "g", "e", "t">>,
    <<"h", "t", "t", "p">>,
    <<"j", "a", "v", "a">>,
    <<"p", "e", "r", "l">>,
    <<"r", "u", "b", "y">>,
    <<"g", "o", "-", "h", "t", "t", "p", "-", "c", "l", "i", "e", "n", "t">>,
    <<"o", "k", "h", "t", "t", "p">>,
    <<"a", "p", "a", "c", "h", "e", "-", "h", "t", "t", "p", "c", "l", "i", "e", "n", "t">>,
    <<"r", "e", "q", "u", "e", "s", "t", "s">>,
    <<"u", "r", "l", "l", "i", "b">>,
    <<"m", "e", "c", "h", "a", "n", "i", "z", "e">>,
    <<"s", "c", "r", "a", "p", "y">>,
    <<"s", "e", "l", "e", "n", "i", "u", "m">>,
    <<"p", "h", "a", "n", "t", "o", "m", "j", "s">>,
    <<"h", "e", "a", "d", "l", "e", "s", "s">>,
    <<"c", "h", "r", "o", "m", "e", "-", "l", "i", "g", "h", "t", "h", "o", "u", "s", "e">>,
    <<"g", "o", "o", "g", "l", "e", "b", "o", "t">>,
    <<"b", "i", "n", "g", "b", "o", "t">>,
    <<"y", "a", "n", "d", "e", "x">>,
    <<"b", "a", "i", "d", "u", "s", "p", "i", "d", "e", "r">>,
    <<"f", "a", "c", "e", "b", "o", "o", "k", "e", "x", "t", "e", "r", "n", "a", "l", "h", "i", "t">>,
    <<"t", "w", "i", "t", "t", "e", "r", "b", "o", "t">>,
    <<"l", "i", "n", "k", "e", "d", "i", "n", "b", "o", "t">>,
    <<"w", "h", "a", "t", "s", "a", "p", "p">>,
    <<"t", "e", "l", "e", "g", "r", "a", "m", "b", "o", "t">>,
    <<"s", "l", "a", "c", "k", "b", "o", "t">>,
    <<"d", "i", "s", "c", "o", "r", "d", "b", "o", "t">>,
    <<"r", "e", "d", "d", "i", "t", "b", "o", "t">>,
    <<"t", "u", "m", "b", "l", "r">>,
    <<"i", "n", "s", "t", "a", "g", "r", "a", "m">>,
    <<"p", "i", "n", "t", "e", "r", "e", "s", "t">>
  >>

allowed_user_agents ==
  <<
    <<"i", "n", "s", "t", "a", "f", "i", "t", "-", "e", "x", "t", "e", "n", "s", "i", "o", "n">>,
    <<"i", "n", "s", "t", "a", "f", "i", "t", "-", "m", "o", "b", "i", "l", "e">>
  >>

Windows == <<"minute", "hour", "day">>

\* RATE_LIMIT_CONFIG as shipped
DefaultRateLimitConfig ==
  [requests_per_minute |-> 3, requests_per_hour |-> 15, requests_per_day |-> 30,
   minute_window |-> 60, hour_window |-> 3600, day_window |-> 86400,
   enable_headers |-> TRUE]

\* config[f"requests_per_{window_type}"]
requests_per(cfg, w) ==
  CASE w = "minute" -> cfg.requests_per_minute
    [] w = "hour"   -> cfg.requests_per_hour
    [] w = "day"    -> cfg.requests_per_day

\* config[f"{window_type}_window"]
window_seconds(cfg, w) ==
  CASE w = "minute" -> cfg.minute_window
    [] w = "hour"   -> cfg.hour_window
    [] w = "day"    -> cfg.day_window

\* BOT_PROTECTION_CONFIG as shipped
DefaultBotProtectionConfig ==
  [block_bot_user_agents |-> TRUE, require_user_agent |-> TRUE,
   block_known_bot_ips |-> FALSE,
   known_bot_ips |-> {}]

(***************************************************************************)
(* Requests: the peer address and the headers the gate reads.              *)
(***************************************************************************)
NoHeaders == [h \in {} |-> <<>>]

\* request.headers.get(name): None is present = FALSE
headers_get(req, name) ==
  IF name \in DOMAIN req.headers
  THEN [present |-> TRUE, value |-> req.headers[name]]
  ELSE [present |-> FALSE, value |-> <<>>]

(***************************************************************************)
(* RateLimiter._get_client_ip                                              *)
(***************************************************************************)
\* variant of get_client_ip: X-Real-IP is consulted before X-Forwarded-For
get_client_ip_real_ip_first(req) ==
  LET forwarded_for == headers_get(req, "X-Forwarded-For")
      real_ip       == headers_get(req, "X-Real-IP")
  IN  IF real_ip.present /\ real_ip.value # <<>>
      THEN real_ip.value
      ELSE IF forwarded_for.present /\ forwarded_for.value # <<>>
           THEN strip(split_first(forwarded_for.value))
           ELSE req.remote_addr

get_client_ip(req) ==
  LET forwarded_for == headers_get(req, "X-Forwarded-For")
      real_ip       == headers_get(req, "X-Real-IP")
  IN  IF forwarded_for.present /\ forwarded_for.value # <<>>
      THEN strip(split_first(forwarded_for.value))
      ELSE IF real_ip.present /\ real_ip.value # <<>>
           THEN real_ip.value
           ELSE req.remote_addr

(***************************************************************************)
(* BotProtector                                                            *)
(***************************************************************************)
\* variant of get_user_agent: the header is compared as sent, not lower-cased
get_user_agent_raw(req) == headers_get(req, "User-Agent").value

\* request.headers.get('User-Agent', '').lower()
get_user_agent(req) == lower(headers_get(req, "User-Agent").value)

\* variant of is_bot_user_agent: the patterns are tried before the whitelist
is_bot_user_agent_patterns_first(user_agent) ==
  IF ~BOT_PROTECTION_CONFIG.block_bot_user_agents THEN FALSE
  ELSE IF \E i \in 1..Len(bot_user_agent_patterns) :
            contains(lower(bot_user_agent_patterns[i]), user_agent)
       THEN TRUE
       ELSE FALSE

\* allowed_agent.lower() and pattern.lower() for the entries of the two lists
allowed_user_agents_lower ==
  [i \in 1..Len(allowed_user_agents) |-> lower(allowed_user_agents[i])]

bot_user_agent_patterns_lower ==
  [i \in 1..Len(bot_user_agent_patterns) |-> lower(bot_user_agent_patterns[i])]

is_bot_user_agent(user_agent) ==
  IF ~BOT_PROTECTION_CONFIG.block_bot_user_agents THEN FALSE
  ELSE IF \E i \in 1..Len(allowed_user_agents_lower) :
            contains(allowed_user_agents_lower[i], user_agent)
       THEN FALSE
       ELSE \E i \in 1..Len(bot_user_agent_patterns_lower) :
            contains(bot_user_agent_patterns_lower[i], user_agent)

is_known_bot_ip(client_ip) ==
  IF ~BOT_PROTECTION_CONFIG.block_known_bot_ips THEN FALSE
  ELSE client_ip \in BOT_PROTECTION_CONFIG.known_bot_ips

\* variant of has_required_headers: the header is not stripped before the test
has_required_headers_unstripped(req) ==
  IF ~BOT_PROTECTION_CONFIG.require_user_agent THEN TRUE
  ELSE LET user_agent == headers_get(req, "User-Agent")
       IN  user_agent.present /\ user_agent.value # <<>>

has_required_headers(req) ==
  IF ~BOT_PROTECTION_CONFIG.require_user_agent THEN TRUE
  ELSE LET user_agent == headers_get(req, "User-Agent")
       IN  user_agent.present /\ strip(user_agent.value) # <<>>

NoReason == [msg |-> "None", user_agent |-> <<>>]

\* (is_bot, reason); the f-string reason keeps its user-agent argument
\* variant of is_bot: the IP blacklist is consulted before the user agent
is_bot_ip_first(req, client_ip) ==
  LET user_agent == get_user_agent(req)
  IN  IF ~has_required_headers(req)
      THEN [is_bot |-> TRUE,
            reason |-> [msg |-> "Missing required headers", user_agent |-> <<>>]]
      ELSE IF is_known_bot_ip(client_ip)
      THEN [is_bot |-> TRUE, reason |-> [msg |-> "Known bot IP", user_agent |-> <<>>]]
      ELSE IF is_bot_user_agent(user_agent)
      THEN [is_bot |-> TRUE,
            reason |-> [msg |-> "Bot user agent detected: ", user_agent |-> user_agent]]
      ELSE [is_bot |-> FALSE, reason |-> NoReason]

is_bot(req, client_ip) ==
  LET user_agent == get_user_agent(req)
  IN  IF ~has_required_headers(req)
      THEN [is_bot |-> TRUE,
            reason |-> [msg |-> "Missing required headers", user_agent |-> <<>>]]
      ELSE IF is_bot_user_agent(user_agent)
      THEN [is_bot |-> TRUE,
            reason |-> [msg |-> "Bot user agent detected: ", user_agent |-> user_agent]]
      ELSE IF is_known_bot_ip(client_ip)
      THEN [is_bot |-> TRUE, reason |-> [msg |-> "Known bot IP", user_agent |-> <<>>]]
      ELSE [is_bot |-> FALSE, reason |-> NoReason]

(***************************************************************************)
(* RateLimiter                                                             *)
(***************************************************************************)
\* the value the defaultdict factory builds for a missing key
new_record == [minute |-> <<>>, hour |-> <<>>, day |-> <<>>]

\* self.storage[client_ip]: reading a missing key inserts it
storage_getitem(st, client_ip) ==
  IF client_ip \in DOMAIN st THEN st ELSE (client_ip :> new_record) @@ st

\* variant of is_old: an entry exactly one window old already counts as old
is_old_inclusive(current_time, ts, window) == current_time - ts >= window

\* variant of is_old: an entry more than a window away from now on either side is old
is_old_either_side(current_time, ts, window) ==
  current_time - ts > window \/ ts - current_time > window

\* variant of is_old: an entry is kept one second longer than the window
is_old_late(current_time, ts, window) == current_time - ts > window + 1

\* the loop condition's comparison: the head is older than the window
is_old(current_time, ts, window) == current_time - ts > window

\* the while loop of _cleanup_old_requests on one deque
RECURSIVE popleft_old(_, _, _)
popleft_old(dq, current_time, window) ==
  IF dq # <<>> /\ is_old(current_time, Head(dq), window)
  THEN popleft_old(Tail(dq), current_time, window)
  ELSE dq

\* variant of cleanup_old_requests: the loop never pops
cleanup_old_requests_keeps_all(st, client_ip, window_type, current_time) ==
  storage_getitem(st, client_ip)

\* variant of cleanup_old_requests: an if where the while is, one stale head is popped
cleanup_old_requests_pops_one(st, client_ip, window_type, current_time) ==
  LET st1 == storage_getitem(st, client_ip)
      window == window_seconds(RATE_LIMIT_CONFIG, window_type)
      dq == st1[client_ip][window_type]
  IN  IF dq # <<>> /\ is_old(current_time, Head(dq), window)
      THEN [st1 EXCEPT ![client_ip][window_type] = Tail(dq)]
      ELSE st1

\* variant of cleanup_old_requests: a stale head empties the whole deque
cleanup_old_requests_clears(st, client_ip, window_type, current_time) ==
  LET st1 == storage_getitem(st, client_ip)
      window == window_seconds(RATE_LIMIT_CONFIG, window_type)
      dq == st1[client_ip][window_type]
  IN  IF dq # <<>> /\ is_old(current_time, Head(dq), window)
      THEN [st1 EXCEPT ![client_ip][window_type] = <<>>]
      ELSE st1

\* _cleanup_old_requests at the time it reads
cleanup_old_requests(st, client_ip, window_type, current_time) ==
  LET st1 == storage_getitem(st, client_ip)
      window == window_seconds(RATE_LIMIT_CONFIG, window_type)
  IN  [st1 EXCEPT ![client_ip][window_type] = popleft_old(@, current_time, window)]

\* variant of at_limit: denies only above the ceiling
at_limit_strict(current_requests, limit) == current_requests > limit

\* variant of at_limit: a ceiling of zero is taken to mean no ceiling
at_limit_zero_unlimited(current_requests, limit) ==
  limit > 0 /\ current_requests >= limit

\* the denial test of is_rate_limited
at_limit(current_requests, limit) == current_requests >= limit

NotLimited ==
  [limited |-> FALSE, window_type |-> "None", limit |-> 0, current |-> 0]

\* the for loop of is_rate_limited from the i-th window on
RECURSIVE is_rate_limited_from(_, _, _, _)
is_rate_limited_from(i, st, client_ip, current_time) ==
  IF i > Len(Windows) THEN [storage |-> st, result |-> NotLimited]
  ELSE LET window_type == Windows[i]
           st1 == cleanup_old_requests(st, client_ip, window_type, current_time)
           limit == requests_per(RATE_LIMIT_CONFIG, window_type)
           current_requests == Len(st1[client_ip][window_type])
       IN  IF at_limit(current_requests, limit)
           THEN [storage |-> st1,
                 result |-> [limited |-> TRUE, window_type |-> window_type,
                             limit |-> limit, current |-> current_requests]]
           ELSE is_rate_limited_from(i + 1, st1, client_ip, current_time)

\* variant of is_rate_limited: every window is pruned before the first is tested
is_rate_limited_prunes_all(st, client_ip, current_time) ==
  LET st1 == cleanup_old_requests(st, client_ip, "minute", current_time)
      st2 == cleanup_old_requests(st1, client_ip, "hour", current_time)
      st3 == cleanup_old_requests(st2, client_ip, "day", current_time)
  IN  is_rate_limited_from(1, st3, client_ip, current_time)

is_rate_limited(st, client_ip, current_time) ==
  is_rate_limited_from(1, st, client_ip, current_time)

\* variant of record_request: the day deque is left out
record_request_minute_hour(st, client_ip, current_time) ==
  LET st1 == storage_getitem(st, client_ip)
  IN  [st1 EXCEPT ![client_ip] =
         [minute |-> Append(@.minute, current_time),
          hour   |-> Append(@.hour, current_time),
          day    |-> @.day]]

record_request(st, client_ip, current_time) ==
  LET st1 == storage_getitem(st, client_ip)
  IN  [st1 EXCEPT ![client_ip] =
         [minute |-> Append(@.minute, current_time),
          hour   |-> Append(@.hour, current_time),
          day    |-> Append(@.day, current_time)]]

\* variant of get_remaining_requests: the query itself is counted as a request
get_remaining_requests_counts_query(st, client_ip, current_time) ==
  LET st0 == record_request(st, client_ip, current_time)
      st1 == cleanup_old_requests(st0, client_ip, "minute", current_time)
      st2 == cleanup_old_requests(st1, client_ip, "hour", current_time)
      st3 == cleanup_old_requests(st2, client_ip, "day", current_time)
  IN  [storage |-> st3,
       result |->
         [minute |-> RATE_LIMIT_CONFIG.requests_per_minute - Len(st3[client_ip].minute),
          hour   |-> RATE_LIMIT_CONFIG.requests_per_hour - Len(st3[client_ip].hour),
          day    |-> RATE_LIMIT_CONFIG.requests_per_day - Len(st3[client_ip].day)]]

get_remaining_requests(st, client_ip, current_time) ==
  LET st1 == cleanup_old_requests(st, client_ip, "minute", current_time)
      st2 == cleanup_old_requests(st1, client_ip, "hour", current_time)
      st3 == cleanup_old_requests(st2, client_ip, "day", current_time)
  IN  [storage |-> st3,
       result |->
         [minute |-> RATE_LIMIT_CONFIG.requests_per_minute - Len(st3[client_ip].minute),
          hour   |-> RATE_LIMIT_CONFIG.requests_per_hour - Len(st3[client_ip].hour),
          day    |-> RATE_LIMIT_CONFIG.requests_per_day - Len(st3[client_ip].day)]]

\* get_rate_limit_info
get_rate_limit_info(st, client_ip, current_time) ==
  get_remaining_requests(st, client_ip, current_time)

\* variant of reset_rate_limit: only the minute deque is discarded
reset_rate_limit_minute_only(st, client_ip) ==
  IF client_ip \in DOMAIN st
  THEN [storage |-> [st EXCEPT ![client_ip].minute = <<>>], result |-> TRUE]
  ELSE [storage |-> st, result |-> FALSE]

\* variant of reset_rate_limit: the deques are emptied and the key is kept
reset_rate_limit_leaves_record(st, client_ip) ==
  IF client_ip \in DOMAIN st
  THEN [storage |-> [st EXCEPT ![client_ip] = new_record], result |-> TRUE]
  ELSE [storage |-> st, result |-> FALSE]

\* reset_rate_limit
\* variant of reset_rate_limit: a reset empties the whole storage
reset_rate_limit_all_clients(st, client_ip) ==
  IF client_ip \in DOMAIN st
  THEN [storage |-> [k \in {} |-> new_record], result |-> TRUE]
  ELSE [storage |-> st, result |-> FALSE]

reset_rate_limit(st, client_ip) ==
  IF client_ip \in DOMAIN st
  THEN [storage |-> [k \in DOMAIN st \ {client_ip} |-> st[k]], result |-> TRUE]
  ELSE [storage |-> st, result |-> FALSE]

(***************************************************************************)
(* Routes of app.py behind the gate.                                       *)
(***************************************************************************)
Endpoints == {"health", "status"}

\* the keys of API_KEYS when the environment sets no API_KEY
API_KEYS == {KEY_TEST}

\* request.get_json() of a request that carries a JSON body
get_json(req) == req.json

\* perform_try_on: the validation errors are (response, status) pairs, the result of
\* a complete request whose images decode and download is a bare response
perform_try_on(req, st) ==
  CASE get_json(req) = "empty" ->
         [storage |-> st, is_tuple |-> TRUE, status |-> 400,
          body |-> [error |-> "No JSON data provided"]]
    [] get_json(req) = "no_user_image" ->
         [storage |-> st, is_tuple |-> TRUE, status |-> 400,
          body |-> [error |-> "User image is required"]]
    [] get_json(req) = "no_product_image_url" ->
         [storage |-> st, is_tuple |-> TRUE, status |-> 400,
          body |-> [error |-> "Product image URL is required"]]
    [] OTHER ->
         [storage |-> st, is_tuple |-> FALSE, status |-> 200,
          body |-> [image_data |-> "result_base64"]]

\* health_check: a bare response that echoes g.rate_limit_info
health_check(st, g_client_ip, g_rate_limit_info, current_time) ==
  [storage |-> st, is_tuple |-> FALSE, status |-> 200,
   body |-> [status |-> "healthy", rate_limit_info |-> g_rate_limit_info]]

\* rate_limit_status: a bare response with get_rate_limit_info(g.client_ip)
rate_limit_status(st, g_client_ip, g_rate_limit_info, current_time) ==
  LET info == get_rate_limit_info(st, g_client_ip, current_time)
  IN  [storage |-> info.storage, is_tuple |-> FALSE, status |-> 200,
       body |-> [client_ip |-> g_client_ip, rate_limit_info |-> info.result,
                 limits |-> [per_minute |-> 3, per_hour |-> 15, per_day |-> 30]]]

\* f(*args, **kwargs) for the route that was hit
handler(endpoint, req, st, g_client_ip, g_rate_limit_info, current_time) ==
  CASE endpoint = "health" -> health_check(st, g_client_ip, g_rate_limit_info, current_time)
    [] endpoint = "status" ->
         rate_limit_status(st, g_client_ip, g_rate_limit_info, current_time)
    [] endpoint = "instafit" -> perform_try_on(req, st)

(***************************************************************************)
(* rate_limit_and_protect: the decorated function, run without             *)
(* interruption at one clock value.  Header values are the integers that   *)
(* str() formats.                                                          *)
(***************************************************************************)
NoResponseHeaders == [h \in {} |-> 0]

limit_headers(remaining) ==
  [h \in {"X-RateLimit-Limit-Minute", "X-RateLimit-Limit-Hour", "X-RateLimit-Limit-Day",
          "X-RateLimit-Remaining-Minute", "X-RateLimit-Remaining-Hour",
          "X-RateLimit-Remaining-Day"} |->
     CASE h = "X-RateLimit-Limit-Minute" -> RATE_LIMIT_CONFIG.requests_per_minute
       [] h = "X-RateLimit-Limit-Hour" -> RATE_LIMIT_CONFIG.requests_per_hour
       [] h = "X-RateLimit-Limit-Day" -> RATE_LIMIT_CONFIG.requests_per_day
       [] h = "X-RateLimit-Remaining-Minute" -> remaining.minute
       [] h = "X-RateLimit-Remaining-Hour" -> remaining.hour
       [] h = "X-RateLimit-Remaining-Day" -> remaining.day]

denied_headers(window_type, limit, current_time) ==
  [h \in {"X-RateLimit-Limit", "X-RateLimit-Remaining", "X-RateLimit-Reset", "Retry-After"} |->
     CASE h = "X-RateLimit-Limit" -> limit
       [] h = "X-RateLimit-Remaining" -> 0
       [] h = "X-RateLimit-Reset" ->
            current_time + window_seconds(RATE_LIMIT_CONFIG, window_type)
       [] h = "Retry-After" -> window_seconds(RATE_LIMIT_CONFIG, window_type)]

\* variant of bot_blocked: the request is recorded before it is classified
bot_blocked_recorded(st, client_ip, reason, current_time) ==
  [storage |-> record_request(st, client_ip, current_time),
   status |-> 403, handler_calls |-> 0,
   body |-> [error |-> "Access denied", reason |-> "Bot detection", details |-> reason],
   headers |-> NoResponseHeaders]

\* the 403 outcome of a request the classifier rejected
bot_blocked(st, client_ip, reason, current_time) ==
  [storage |-> st, status |-> 403, handler_calls |-> 0,
   body |-> [error |-> "Access denied", reason |-> "Bot detection", details |-> reason],
   headers |-> NoResponseHeaders]

\* variant of rate_limited: the request is recorded although it is refused
rate_limited_recorded(st, client_ip, result, current_time) ==
  [storage |-> record_request(st, client_ip, current_time),
   status |-> 429, handler_calls |-> 0,
   body |-> [error |-> "Rate limit exceeded",
             limit_type |-> result.window_type,
             limit |-> result.limit,
             current |-> result.current,
             retry_after |-> window_seconds(RATE_LIMIT_CONFIG, result.window_type)],
   headers |-> NoResponseHeaders]

\* variant of rate_limited: retry_after is the time until the oldest entry expires
rate_limited_until_expiry(st, client_ip, result, current_time) ==
  LET dq == st[client_ip][result.window_type]
      window == window_seconds(RATE_LIMIT_CONFIG, result.window_type)
      wait == IF dq = <<>> THEN window ELSE window - (current_time - Head(dq))
  IN  [storage |-> st, status |-> 429, handler_calls |-> 0,
       body |-> [error |-> "Rate limit exceeded",
                 limit_type |-> result.window_type,
                 limit |-> result.limit,
                 current |-> result.current,
                 retry_after |-> wait],
       headers |-> IF RATE_LIMIT_CONFIG.enable_headers
                   THEN [denied_headers(result.window_type, result.limit, current_time)
                           EXCEPT !["Retry-After"] = wait]
                   ELSE NoResponseHeaders]

\* the 429 outcome of a request is_rate_limited refused
rate_limited(st, client_ip, result, current_time) ==
  [storage |-> st, status |-> 429, handler_calls |-> 0,
   body |-> [error |-> "Rate limit exceeded",
             limit_type |-> result.window_type,
             limit |-> result.limit,
             current |-> result.current,
             retry_after |-> window_seconds(RATE_LIMIT_CONFIG, result.window_type)],
   headers |-> IF RATE_LIMIT_CONFIG.enable_headers
               THEN denied_headers(result.window_type, result.limit, current_time)
               ELSE NoResponseHeaders]

\* variant of admitted: the record is taken back when the route answers with an error
admitted_rolls_back_on_error(st, req, client_ip, endpoint, current_time) ==
  LET recorded == record_request(st, client_ip, current_time)
      g_info == get_remaining_requests(recorded, client_ip, current_time)
      remaining == get_remaining_requests(g_info.storage, client_ip, current_time)
      called == handler(endpoint, req,
                        IF RATE_LIMIT_CONFIG.enable_headers
                        THEN remaining.storage ELSE g_info.storage,
                        client_ip, g_info.result, current_time)
  IN  [storage |-> IF called.status >= 400 THEN st ELSE called.storage,
       status |-> called.status, handler_calls |-> 1,
       body |-> called.body,
       headers |-> IF RATE_LIMIT_CONFIG.enable_headers
                   THEN limit_headers(remaining.result)
                   ELSE NoResponseHeaders]

\* variant of admitted: the headers are set on a bare response only, a
\* (response, status) pair is passed on as it is
admitted_bare_only(st, req, client_ip, endpoint, current_time) ==
  LET recorded == record_request(st, client_ip, current_time)
      g_info == get_remaining_requests(recorded, client_ip, current_time)
      remaining == get_remaining_requests(g_info.storage, client_ip, current_time)
      called == handler(endpoint, req,
                        IF RATE_LIMIT_CONFIG.enable_headers
                        THEN remaining.storage ELSE g_info.storage,
                        client_ip, g_info.result, current_time)
  IN  [storage |-> called.storage, status |-> called.status, handler_calls |-> 1,
       body |-> called.body,
       headers |-> IF RATE_LIMIT_CONFIG.enable_headers /\ ~called.is_tuple
                   THEN limit_headers(remaining.result)
                   ELSE NoResponseHeaders]

\* an admitted request: record, fill g, call the route, annotate the response; the
\* branch for a (response, status) pair and the one for a bare response set the same
\* six headers and keep the route's status
\* variant of admitted: with enable_headers off the request is not recorded
admitted_unrecorded_without_headers(st, req, client_ip, endpoint, current_time) ==
  LET recorded == IF RATE_LIMIT_CONFIG.enable_headers
                  THEN record_request(st, client_ip, current_time)
                  ELSE storage_getitem(st, client_ip)
      g_info == get_remaining_requests(recorded, client_ip, current_time)
      remaining == get_remaining_requests(g_info.storage, client_ip, current_time)
      called == handler(endpoint, req,
                        IF RATE_LIMIT_CONFIG.enable_headers
                        THEN remaining.storage ELSE g_info.storage,
                        client_ip, g_info.result, current_time)
  IN  [storage |-> called.storage, status |-> called.status, handler_calls |-> 1,
       body |-> called.body,
       headers |-> IF RATE_LIMIT_CONFIG.enable_headers
                   THEN limit_headers(remaining.result)
                   ELSE NoResponseHeaders]

admitted(st, req, client_ip, endpoint, current_time) ==
  LET recorded == record_request(st, client_ip, current_time)
      g_info == get_remaining_requests(recorded, client_ip, current_time)
      remaining == get_remaining_requests(g_info.storage, client_ip, current_time)
      called == handler(endpoint, req,
                        IF RATE_LIMIT_CONFIG.enable_headers
                        THEN remaining.storage ELSE g_info.storage,
                        client_ip, g_info.result, current_time)
  IN  [storage |-> called.storage, status |-> called.status, handler_calls |-> 1,
       body |-> called.body,
       headers |-> IF RATE_LIMIT_CONFIG.enable_headers
                   THEN limit_headers(remaining.result)
                   ELSE NoResponseHeaders]

decorated_function(st, req, endpoint, current_time) ==
  LET client_ip == get_client_ip(req)
      bot == is_bot(req, client_ip)
      rl == is_rate_limited(st, client_ip, current_time)
  IN  IF bot.is_bot
      THEN bot_blocked(st, client_ip, bot.reason, current_time)
      ELSE IF rl.result.limited
           THEN rate_limited(rl.storage, client_ip, rl.result, current_time)
           ELSE admitted(rl.storage, req, client_ip, endpoint, current_time)

\* the outcome of a request that require_api_key turns away
unauthorized(st, message) ==
  [storage |-> st, status |-> 401, handler_calls |-> 0,
   body |-> [error |-> message], headers |-> NoResponseHeaders]

\* require_api_key around the decorated function, as on /instafit
\* variant of require_api_key: the decorators are stacked the other way round, the
\* gate runs first and the key is looked at where the route would run
require_api_key_inside_gate(st, req, endpoint, current_time) ==
  LET auth_header == headers_get(req, "Authorization")
      api_key == remove_all(BEARER, auth_header.value)
      gate == decorated_function(st, req, endpoint, current_time)
  IN  IF gate.handler_calls = 0 THEN gate
      ELSE IF ~auth_header.present \/ auth_header.value = <<>>
      THEN [gate EXCEPT !.status = 401, !.handler_calls = 0,
                        !.body = [error |-> "API key required"]]
      ELSE IF api_key \notin API_KEYS
           THEN [gate EXCEPT !.status = 401, !.handler_calls = 0,
                             !.body = [error |-> "Invalid API key"]]
           ELSE gate

require_api_key(st, req, endpoint, current_time) ==
  LET auth_header == headers_get(req, "Authorization")
      api_key == remove_all(BEARER, auth_header.value)
  IN  IF ~auth_header.present \/ auth_header.value = <<>>
      THEN unauthorized(st, "API key required")
      ELSE IF api_key \notin API_KEYS
           THEN unauthorized(st, "Invalid API key")
           ELSE decorated_function(st, req, endpoint, current_time)

(***************************************************************************)
(* Inputs.                                                                 *)
(***************************************************************************)
Absent == [present |-> FALSE, value |-> <<>>]
Given(v) == [present |-> TRUE, value |-> v]

\* a request with the given peer address and optional headers
mk_request(remote_addr, user_agent, forwarded_for, real_ip) ==
  [remote_addr |-> remote_addr,
   headers |->
     [h \in {n \in {"User-Agent", "X-Forwarded-For", "X-Real-IP"} :
               CASE n = "User-Agent" -> user_agent.present
                 [] n = "X-Forwarded-For" -> forwarded_for.present
                 [] n = "X-Real-IP" -> real_ip.present} |->
        CASE h = "User-Agent" -> user_agent.value
          [] h = "X-Forwarded-For" -> forwarded_for.value
          [] h = "X-Real-IP" -> real_ip.value]]

Identities == {IP_A, IP_B}

\* the requests sent to the gate; each of them resolves to the identity IP_A
GateRequests ==
  {mk_request(IP_A, ua, Absent, Absent) : ua \in {Absent, Given(UA_CURL), Given(UA_TEST)}}
    \cup {mk_request(IP_B, Given(UA_TEST), Given(XFF_AB), Absent)}

\* the requests classified on their own
UserAgents ==
  {Absent, Given(UA_EMPTY), Given(UA_BLANK), Given(UA_CURL), Given(UA_PYREQ),
   Given(UA_MOZILLA), Given(UA_TEST), Given(UA_EXT), Given(UA_EXT_BOT),
   Given(UA_UPPER_BOT)}

BotRequests == {mk_request(a, ua, Absent, Absent) : a \in Identities, ua \in UserAgents}

\* a compact configuration in which all three windows fill and expire
SmallRateLimitConfig ==
  [requests_per_minute |-> 2, requests_per_hour |-> 3, requests_per_day |-> 4,
   minute_window |-> 1, hour_window |-> 2, day_window |-> 4,
   enable_headers |-> TRUE]

\* the compact configuration with a minute ceiling of zero
ZeroMinuteRateLimitConfig == [SmallRateLimitConfig EXCEPT !.requests_per_minute = 0]

RateLimitConfigs ==
  {[c EXCEPT !.enable_headers = e] :
     c \in {DefaultRateLimitConfig, SmallRateLimitConfig, ZeroMinuteRateLimitConfig},
     e \in BOOLEAN}

GateBotConfigs ==
  {DefaultBotProtectionConfig,
   [DefaultBotProtectionConfig EXCEPT !.block_known_bot_ips = TRUE,
                                      !.known_bot_ips = {IP_A}]}

AllBotConfigs ==
  {[DefaultBotProtectionConfig EXCEPT !.block_bot_user_agents = b,
                                      !.require_user_agent = r,
                                      !.block_known_bot_ips = k,
                                      !.known_bot_ips = ips] :
     b \in BOOLEAN, r \in BOOLEAN, k \in BOOLEAN, ips \in SUBSET Identities}

(***************************************************************************)
(* The gate as a state machine: requests are served one at a time.         *)
(***************************************************************************)
EmptyStorage == [k \in {} |-> new_record]

Threads == 1..NumThreads

NoRemaining == [minute |-> 0, hour |-> 0, day |-> 0]

\* a worker thread between requests that has not answered one yet
IdleThread ==
  [pc |-> "idle", client_ip |-> <<>>, endpoint |-> "None", caller |-> "None",
   w |-> 0, current_time |-> 0, g_rate_limit_info |-> NoRemaining,
   remaining |-> NoRemaining, response |-> [status |-> 0]]

Init ==
  /\ RATE_LIMIT_CONFIG \in RateLimitConfigs
  /\ BOT_PROTECTION_CONFIG \in GateBotConfigs
  /\ storage = EmptyStorage
  /\ clock = 0
  /\ last = [op |-> "start"]
  /\ threads = [t \in Threads |-> IdleThread]
  /\ started = 0

\* time.time() advances
Tick ==
  /\ clock < MaxClock
  /\ clock' = clock + 1
  /\ last' = [op |-> "tick"]
  /\ UNCHANGED <<RATE_LIMIT_CONFIG, BOT_PROTECTION_CONFIG, storage, threads, started>>

\* one request to a gated route
Request(req, endpoint) ==
  \E out \in {decorated_function(storage, req, endpoint, clock)} :
    LET client_ip == get_client_ip(req)
    IN  /\ storage' = out.storage
        /\ last' = [op |-> "request", endpoint |-> endpoint, client_ip |-> client_ip,
                    current_time |-> clock, before |-> storage,
                    status |-> out.status, body |-> out.body, headers |-> out.headers,
                    handler_calls |-> out.handler_calls]
        /\ UNCHANGED <<RATE_LIMIT_CONFIG, BOT_PROTECTION_CONFIG, clock, threads, started>>

\* admin_reset_rate_limit
Reset(ip_address) ==
  LET out == reset_rate_limit(storage, ip_address)
  IN  /\ storage' = out.storage
      /\ last' = [op |-> "reset", client_ip |-> ip_address, current_time |-> clock,
                  before |-> storage, status |-> IF out.result THEN 200 ELSE 404]
      /\ UNCHANGED <<RATE_LIMIT_CONFIG, BOT_PROTECTION_CONFIG, clock, threads, started>>

Next ==
  \/ Tick
  \/ \E req \in GateRequests, endpoint \in Endpoints : Request(req, endpoint)
  \/ \E ip_address \in Identities : Reset(ip_address)

Spec == Init /\ [][Next]_vars

(***************************************************************************)
(* The gate with the try-on route next to the other routes: /instafit is   *)
(* behind require_api_key and then behind the gate, and answers with a     *)
(* bare response or with a (response, status) pair.                        *)
(***************************************************************************)
\* a POST to /instafit with an optional Authorization header and a JSON body
try_on_request(remote_addr, user_agent, authorization, json) ==
  LET base == mk_request(remote_addr, user_agent, Absent, Absent)
  IN  [remote_addr |-> remote_addr,
       headers |-> IF authorization.present
                   THEN ("Authorization" :> authorization.value) @@ base.headers
                   ELSE base.headers,
       json |-> json]

TryOnRequests ==
  {try_on_request(IP_A, ua, authorization, json) :
     ua \in {Given(UA_CURL), Given(UA_TEST)},
     authorization \in {Absent, Given(AUTH_TEST), Given(AUTH_WRONG)},
     json \in {"empty", "no_user_image", "complete"}}

\* one request to /instafit
TryOn(req) ==
  \E out \in {require_api_key(storage, req, "instafit", clock)} :
    /\ storage' = out.storage
    /\ last' = [op |-> "try_on", endpoint |-> "instafit", client_ip |-> get_client_ip(req),
                current_time |-> clock, before |-> storage,
                status |-> out.status, body |-> out.body, headers |-> out.headers,
                handler_calls |-> out.handler_calls]
    /\ UNCHANGED <<RATE_LIMIT_CONFIG, BOT_PROTECTION_CONFIG, clock, threads, started>>

NextRoutes ==
  \/ Next
  \/ \E req \in TryOnRequests : TryOn(req)

SpecRoutes == Init /\ [][NextRoutes]_vars

(***************************************************************************)
(* Identity resolution on its own, over requests with every combination of *)
(* the two proxy headers: absent, empty, blank, well-formed, malformed.    *)
(***************************************************************************)
XFF_BLANK == <<" ", " ">>

ForwardedForValues ==
  {Absent, Given(<<>>), Given(XFF_BLANK), Given(XFF_AB), Given(XFF_LEADING_COMMA),
   Given(XFF_GARBLED), Given(IP_B)}

RealIpValues == {Absent, Given(<<>>), Given(IP_B), Given(XFF_GARBLED)}

IdentifyRequests ==
  {mk_request(remote_addr, ua, forwarded_for, real_ip) :
     remote_addr \in Identities, ua \in {Absent, Given(UA_TEST)},
     forwarded_for \in ForwardedForValues, real_ip \in RealIpValues}

\* rate_limiter._get_client_ip() on one request
Identify(req) ==
  /\ last' = [op |-> "identify", req |-> req, client_ip |-> get_client_ip(req)]
  /\ UNCHANGED <<RATE_LIMIT_CONFIG, BOT_PROTECTION_CONFIG, storage, clock, threads, started>>

NextIdentify == \E req \in IdentifyRequests : Identify(req)

SpecIdentify == Init /\ [][NextIdentify]_vars

(***************************************************************************)
(* The classifier on its own, over every configuration of its switches.    *)
(***************************************************************************)
InitBot ==
  /\ RATE_LIMIT_CONFIG = DefaultRateLimitConfig
  /\ BOT_PROTECTION_CONFIG \in AllBotConfigs
  /\ storage = EmptyStorage
  /\ clock = 0
  /\ last = [op |-> "start"]
  /\ threads = [t \in Threads |-> IdleThread]
  /\ started = 0

\* bot_protector.is_bot(client_ip) on one request
Classify(req) ==
  LET client_ip == get_client_ip(req)
      out == is_bot(req, client_ip)
  IN  /\ last' = [op |-> "classify", req |-> req, client_ip |-> client_ip,
                  is_bot |-> out.is_bot, reason |-> out.reason]
      /\ UNCHANGED <<RATE_LIMIT_CONFIG, BOT_PROTECTION_CONFIG, storage, clock, threads, started>>

NextBot == \E req \in BotRequests : Classify(req)

SpecBot == InitBot /\ [][NextBot]_vars

(***************************************************************************)
(* The threaded server (SERVER_CONFIG.threaded): every worker thread runs  *)
(* the decorated function on the shared storage without a lock.  A step is *)
(* one access to the storage; a time.time() whose value a later step uses  *)
(* is read in the step before it, which does not look at the clock.        *)
(***************************************************************************)
\* the requests the worker threads take; each resolves to the identity IP_A
ThreadRequests ==
  {mk_request(IP_A, ua, Absent, Absent) : ua \in {Given(UA_CURL), Given(UA_TEST)}}

\* the route the worker threads serve
ThreadEndpoints == {"health"}

ThreadRateLimitConfigs == {SmallRateLimitConfig}

InitThreaded ==
  /\ RATE_LIMIT_CONFIG \in ThreadRateLimitConfigs
  /\ BOT_PROTECTION_CONFIG = DefaultBotProtectionConfig
  /\ storage = EmptyStorage
  /\ clock = 0
  /\ last = [op |-> "start"]
  /\ threads = [t \in Threads |-> IdleThread]
  /\ started = 0

\* time.time() advances while the threads run
TickThreaded ==
  /\ clock < MaxThreadClock
  /\ clock' = clock + 1
  /\ UNCHANGED <<RATE_LIMIT_CONFIG, BOT_PROTECTION_CONFIG, storage, last, threads, started>>

\* thread t enters _cleanup_old_requests for window w on behalf of caller
enter_cleanup(t, caller, w) ==
  [threads EXCEPT ![t].pc = "cleanup_test", ![t].caller = caller, ![t].w = w,
                  ![t].current_time = clock]

\* thread t answers and waits for its next request; of the response only what the
\* properties read is kept (the quota figures are in the thread until it answers)
respond(t, response) ==
  [threads EXCEPT ![t] = [IdleThread EXCEPT !.response = response]]

\* thread t leaves the while loop of _cleanup_old_requests
leave_cleanup(t) ==
  LET me == threads[t]
  IN  IF me.caller = "is_rate_limited"
      THEN [threads EXCEPT ![t].pc = "check_limit"]
      ELSE IF me.w < Len(Windows)
           THEN enter_cleanup(t, me.caller, me.w + 1)
           ELSE [threads EXCEPT ![t].pc = "read_remaining"]

\* decorated_function up to the call of is_rate_limited
T_Start(t, req, endpoint) ==
  LET client_ip == get_client_ip(req)
      bot == is_bot(req, client_ip)
  IN  /\ threads[t].pc = "idle"
      /\ started < MaxStarted
      /\ started' = started + 1
      /\ threads' = IF bot.is_bot
                    THEN respond(t, [status |-> 403])
                    ELSE [enter_cleanup(t, "is_rate_limited", 1) EXCEPT
                            ![t].client_ip = client_ip, ![t].endpoint = endpoint]
      /\ UNCHANGED <<RATE_LIMIT_CONFIG, BOT_PROTECTION_CONFIG, storage, clock, last>>

\* the loop test: self.storage[client_ip][window_type] is not empty
T_CleanupTest(t) ==
  LET me == threads[t]
      st1 == storage_getitem(storage, me.client_ip)
  IN  /\ me.pc = "cleanup_test"
      /\ storage' = st1
      /\ threads' = IF st1[me.client_ip][Windows[me.w]] # <<>>
                    THEN [threads EXCEPT ![t].pc = "cleanup_head"]
                    ELSE leave_cleanup(t)
      /\ UNCHANGED <<RATE_LIMIT_CONFIG, BOT_PROTECTION_CONFIG, clock, last, started>>

\* the loop test: current_time - self.storage[client_ip][window_type][0] > window_seconds;
\* [0] on a deque emptied in the meantime raises IndexError
T_CleanupHead(t) ==
  LET me == threads[t]
      st1 == storage_getitem(storage, me.client_ip)
      dq == st1[me.client_ip][Windows[me.w]]
  IN  /\ me.pc = "cleanup_head"
      /\ storage' = st1
      /\ threads' =
           IF dq = <<>> THEN respond(t, [status |-> 500, error |-> "IndexError"])
           ELSE IF is_old(me.current_time, Head(dq),
                          window_seconds(RATE_LIMIT_CONFIG, Windows[me.w]))
                THEN [threads EXCEPT ![t].pc = "cleanup_pop"]
                ELSE leave_cleanup(t)
      /\ UNCHANGED <<RATE_LIMIT_CONFIG, BOT_PROTECTION_CONFIG, clock, last, started>>

\* the loop body: popleft(), which raises IndexError on an empty deque
T_CleanupPop(t) ==
  LET me == threads[t]
      st1 == storage_getitem(storage, me.client_ip)
      dq == st1[me.client_ip][Windows[me.w]]
  IN  /\ me.pc = "cleanup_pop"
      /\ storage' = IF dq = <<>> THEN st1
                    ELSE [st1 EXCEPT ![me.client_ip][Windows[me.w]] = Tail(dq)]
      /\ threads' = IF dq = <<>>
                    THEN respond(t, [status |-> 500, error |-> "IndexError"])
                    ELSE [threads EXCEPT ![t].pc = "cleanup_test"]
      /\ UNCHANGED <<RATE_LIMIT_CONFIG, BOT_PROTECTION_CONFIG, clock, last, started>>

\* is_rate_limited after the cleanup of one window: read the length and decide
T_CheckLimit(t) ==
  LET me == threads[t]
      st1 == storage_getitem(storage, me.client_ip)
      window_type == Windows[me.w]
      limit == requests_per(RATE_LIMIT_CONFIG, window_type)
      current_requests == Len(st1[me.client_ip][window_type])
  IN  /\ me.pc = "check_limit"
      /\ storage' = st1
      /\ threads' =
           IF at_limit(current_requests, limit)
           THEN respond(t, [status |-> 429, limit_type |-> window_type,
                            limit |-> limit, current |-> current_requests])
           ELSE IF me.w < Len(Windows)
                THEN enter_cleanup(t, "is_rate_limited", me.w + 1)
                ELSE [threads EXCEPT ![t].pc = "record", ![t].w = 1,
                                     ![t].current_time = clock]
      /\ UNCHANGED <<RATE_LIMIT_CONFIG, BOT_PROTECTION_CONFIG, clock, last, started>>

\* record_request: one append of the time read at its start
T_RecordAppend(t) ==
  LET me == threads[t]
      st1 == storage_getitem(storage, me.client_ip)
  IN  /\ me.pc = "record"
      /\ storage' = [st1 EXCEPT ![me.client_ip][Windows[me.w]] =
                       Append(@, me.current_time)]
      /\ threads' = IF me.w < Len(Windows)
                    THEN [threads EXCEPT ![t].w = me.w + 1]
                    ELSE enter_cleanup(t, "g.rate_limit_info", 1)
      /\ UNCHANGED <<RATE_LIMIT_CONFIG, BOT_PROTECTION_CONFIG, clock, last, started>>

\* the return of get_remaining_requests: the three lengths are read
T_ReadRemaining(t) ==
  LET me == threads[t]
      st1 == storage_getitem(storage, me.client_ip)
      result ==
        [minute |-> RATE_LIMIT_CONFIG.requests_per_minute - Len(st1[me.client_ip].minute),
         hour   |-> RATE_LIMIT_CONFIG.requests_per_hour - Len(st1[me.client_ip].hour),
         day    |-> RATE_LIMIT_CONFIG.requests_per_day - Len(st1[me.client_ip].day)]
  IN  /\ me.pc = "read_remaining"
      /\ storage' = st1
      /\ threads' =
           CASE me.caller = "g.rate_limit_info" ->
                  IF RATE_LIMIT_CONFIG.enable_headers
                  THEN [enter_cleanup(t, "remaining", 1) EXCEPT
                          ![t].g_rate_limit_info = result]
                  ELSE [threads EXCEPT ![t].pc = "call", ![t].g_rate_limit_info = result]
             [] me.caller = "remaining" ->
                  [threads EXCEPT ![t].pc = "call", ![t].remaining = result]
             [] me.caller = "get_rate_limit_info" ->
                  respond(t, [status |-> 200])
      /\ UNCHANGED <<RATE_LIMIT_CONFIG, BOT_PROTECTION_CONFIG, clock, last, started>>

\* f(*args, **kwargs): health_check answers, rate_limit_status asks the limiter
T_Call(t) ==
  LET me == threads[t]
  IN  /\ me.pc = "call"
      /\ threads' =
           IF me.endpoint = "status"
           THEN enter_cleanup(t, "get_rate_limit_info", 1)
           ELSE respond(t, [status |-> 200])
      /\ UNCHANGED <<RATE_LIMIT_CONFIG, BOT_PROTECTION_CONFIG, storage, clock, last, started>>

NextThreaded ==
  \/ TickThreaded
  \/ \E t \in Threads, req \in ThreadRequests, endpoint \in ThreadEndpoints :
       T_Start(t, req, endpoint)
  \/ \E t \in Threads : T_CleanupTest(t)
  \/ \E t \in Threads : T_CleanupHead(t)
  \/ \E t \in Threads : T_CleanupPop(t)
  \/ \E t \in Threads : T_CheckLimit(t)
  \/ \E t \in Threads : T_RecordAppend(t)
  \/ \E t \in Threads : T_ReadRemaining(t)
  \/ \E t \in Threads : T_Call(t)

SpecThreaded == InitThreaded /\ [][NextThreaded]_vars

(***************************************************************************)
(* The limiter called operation by operation, as a caller that imports     *)
(* rate_limiter, get_rate_limit_info and reset_rate_limit can: an          *)
(* admission check, the record that follows an allowing check, a query of  *)
(* the remaining quota, a reset, for several identities.                   *)
(***************************************************************************)
\* the compact configuration with an hour ceiling, or a day ceiling, of zero
ZeroHourRateLimitConfig == [SmallRateLimitConfig EXCEPT !.requests_per_hour = 0]

ZeroDayRateLimitConfig == [SmallRateLimitConfig EXCEPT !.requests_per_day = 0]

ApiRateLimitConfigs ==
  {SmallRateLimitConfig, ZeroMinuteRateLimitConfig, ZeroHourRateLimitConfig,
   ZeroDayRateLimitConfig}

InitApi ==
  /\ RATE_LIMIT_CONFIG \in ApiRateLimitConfigs
  /\ BOT_PROTECTION_CONFIG = DefaultBotProtectionConfig
  /\ storage = EmptyStorage
  /\ clock = 0
  /\ last = [op |-> "start"]
  /\ threads = [t \in Threads |-> IdleThread]
  /\ started = 0

\* rate_limiter.is_rate_limited(client_ip)
IsRateLimited(client_ip) ==
  \E out \in {is_rate_limited(storage, client_ip, clock)} :
    /\ storage' = out.storage
    /\ last' = [op |-> "is_rate_limited", client_ip |-> client_ip, current_time |-> clock,
                before |-> storage, result |-> out.result]
    /\ UNCHANGED <<RATE_LIMIT_CONFIG, BOT_PROTECTION_CONFIG, clock, threads, started>>

\* rate_limiter.record_request(client_ip), called as the gate calls it: right after
\* is_rate_limited(client_ip) returned not limited
RecordRequest(client_ip) ==
  /\ last.op = "is_rate_limited" /\ last.client_ip = client_ip /\ ~last.result.limited
  /\ storage' = record_request(storage, client_ip, clock)
  /\ last' = [op |-> "record_request", client_ip |-> client_ip, current_time |-> clock,
              before |-> storage]
  /\ UNCHANGED <<RATE_LIMIT_CONFIG, BOT_PROTECTION_CONFIG, clock, threads, started>>

\* get_rate_limit_info(client_ip)
GetRateLimitInfo(client_ip) ==
  \E out \in {get_rate_limit_info(storage, client_ip, clock)} :
    /\ storage' = out.storage
    /\ last' = [op |-> "get_rate_limit_info", client_ip |-> client_ip,
                current_time |-> clock, before |-> storage, result |-> out.result]
    /\ UNCHANGED <<RATE_LIMIT_CONFIG, BOT_PROTECTION_CONFIG, clock, threads, started>>

NextApi ==
  \/ Tick
  \/ \E client_ip \in Identities : IsRateLimited(client_ip)
  \/ \E client_ip \in Identities : RecordRequest(client_ip)
  \/ \E client_ip \in Identities : GetRateLimitInfo(client_ip)
  \/ \E ip_address \in Identities : Reset(ip_address)

SpecApi == InitApi /\ [][NextApi]_vars

(***************************************************************************)
(* The limiter under a wall clock that is set back and forth: time.time()  *)
(* follows the system clock, which an adjustment can move backward.        *)
(***************************************************************************)
SkewRateLimitConfigs == {SmallRateLimitConfig}

SkewIdentities == {IP_A}

InitSkew ==
  /\ RATE_LIMIT_CONFIG \in SkewRateLimitConfigs
  /\ BOT_PROTECTION_CONFIG = DefaultBotProtectionConfig
  /\ storage = EmptyStorage
  /\ clock = 0
  /\ last = [op |-> "start"]
  /\ threads = [t \in Threads |-> IdleThread]
  /\ started = 0

\* the next time.time() reading is any other time, earlier or later
ClockJump ==
  \E now \in 0..MaxClock :
    /\ now # clock
    /\ clock' = now
    /\ last' = [op |-> "tick"]
    /\ UNCHANGED <<RATE_LIMIT_CONFIG, BOT_PROTECTION_CONFIG, storage, threads, started>>

NextSkew ==
  \/ ClockJump
  \/ \E client_ip \in SkewIdentities : IsRateLimited(client_ip)
  \/ \E client_ip \in SkewIdentities : RecordRequest(client_ip)
  \/ \E client_ip \in SkewIdentities : GetRateLimitInfo(client_ip)

SpecSkew == InitSkew /\ [][NextSkew]_vars

(***************************************************************************)
(* Observations used by the properties.                                    *)
(***************************************************************************)
\* the number of entries of dq that are at most window old at current_time
count_within(dq, current_time, window) ==
  Cardinality({i \in 1..Len(dq) : current_time - dq[i] <= window})

\* the deques of an identity, empty when it has no record
deques_of(st, client_ip) == IF client_ip \in DOMAIN st THEN st[client_ip] ELSE new_record

\* remaining(id, now) as a caller of get_remaining_requests sees it
remaining_of(st, client_ip, current_time) ==
  get_remaining_requests(st, client_ip, current_time).result

\* a is what is left of b after removing entries from its head
IsSuffix(a, b) == \E k \in 0..Len(b) : a = SubSeq(b, k + 1, Len(b))

\* the last step was a gated request that the classifier let through
PassedBotCheck == last.op = "request" /\ last.status # 403

(***************************************************************************)
(* C1: requests of one identity served one at a time within one minute:    *)
(* while fewer than requests_per_minute were admitted in the trailing      *)
(* minute and no coarser window is at its ceiling the request is allowed;  *)
(* once requests_per_minute were admitted in that minute the next one is   *)
(* denied with window = minute, limit = current = requests_per_minute.     *)
(* The requests admitted so far are read from the day deque the request    *)
(* found, which holds every admission of the last day.                     *)
(***************************************************************************)
C1_MinuteCeiling ==
  PassedBotCheck =>
    LET log == deques_of(last.before, last.client_ip).day
        in_minute == count_within(log, last.current_time, RATE_LIMIT_CONFIG.minute_window)
        in_hour == count_within(log, last.current_time, RATE_LIMIT_CONFIG.hour_window)
        in_day == count_within(log, last.current_time, RATE_LIMIT_CONFIG.day_window)
    IN  /\ ( /\ in_minute < RATE_LIMIT_CONFIG.requests_per_minute
             /\ in_hour < RATE_LIMIT_CONFIG.requests_per_hour
             /\ in_day < RATE_LIMIT_CONFIG.requests_per_day ) => last.status = 200
        /\ in_minute >= RATE_LIMIT_CONFIG.requests_per_minute =>
             /\ last.status = 429
             /\ last.body.limit_type = "minute"
             /\ last.body.limit = RATE_LIMIT_CONFIG.requests_per_minute
             /\ last.body.current = RATE_LIMIT_CONFIG.requests_per_minute

\* the fourth request of a minute under the shipped 3/15/30 is denied as minute/3/3
C1_Witness ==
  /\ PassedBotCheck
  /\ RATE_LIMIT_CONFIG.requests_per_minute = 3
  /\ RATE_LIMIT_CONFIG.requests_per_hour = 15
  /\ RATE_LIMIT_CONFIG.requests_per_day = 30
  /\ last.status = 429
  /\ last.body.limit_type = "minute" /\ last.body.limit = 3 /\ last.body.current = 3
  /\ Len(deques_of(storage, last.client_ip).day) = 3

(***************************************************************************)
(* C3: with requests served one at a time and a clock that never goes      *)
(* back, for every identity and each window the number of recorded         *)
(* timestamps at most that window's duration old never exceeds the         *)
(* window's ceiling.  The count is taken in the window's own deque and in  *)
(* every deque of a longer window, which records the same admissions.      *)
(***************************************************************************)
C3_WindowNeverOverCeiling ==
  \A id \in DOMAIN storage :
    \A i \in 1..Len(Windows) : \A j \in i..Len(Windows) :
      window_seconds(RATE_LIMIT_CONFIG, Windows[i])
          <= window_seconds(RATE_LIMIT_CONFIG, Windows[j]) =>
        count_within(storage[id][Windows[j]], clock,
                     window_seconds(RATE_LIMIT_CONFIG, Windows[i]))
          <= requests_per(RATE_LIMIT_CONFIG, Windows[i])

\* the minute window is full again after earlier admissions aged out of it
C3_Witness ==
  \E id \in DOMAIN storage :
    /\ count_within(storage[id].day, clock, RATE_LIMIT_CONFIG.minute_window)
         = RATE_LIMIT_CONFIG.requests_per_minute
    /\ Len(storage[id].day) > RATE_LIMIT_CONFIG.requests_per_minute
    /\ RATE_LIMIT_CONFIG.requests_per_minute > 0

(***************************************************************************)
(* C4: a denial does not change the quota: when the gate answers 429 the   *)
(* remaining figures of the identity computed on the storage the request   *)
(* left equal those computed on the storage it found, at the same time,    *)
(* and no deque gained an entry (each is what is left of the old deque     *)
(* after pruning its head).                                                *)
(***************************************************************************)
C4_DenialKeepsQuota ==
  (last.op = "request" /\ last.status = 429) =>
    /\ remaining_of(storage, last.client_ip, last.current_time)
         = remaining_of(last.before, last.client_ip, last.current_time)
    /\ \A i \in 1..Len(Windows) :
         IsSuffix(deques_of(storage, last.client_ip)[Windows[i]],
                  deques_of(last.before, last.client_ip)[Windows[i]])

\* a denial whose own pruning changed the stored deques
C4_Witness ==
  /\ last.op = "request" /\ last.status = 429
  /\ last.client_ip \in DOMAIN last.before
  /\ storage # last.before

(***************************************************************************)
(* C5: a request the classifier rejects leaves the limiter's storage as it *)
(* was (the same identities with a record, the same deques) and the route  *)
(* is not called.                                                          *)
(***************************************************************************)
C5_BotRejectionLeavesStorage ==
  (last.op = "request" /\ last.status = 403) =>
    /\ storage = last.before
    /\ DOMAIN storage = DOMAIN last.before
    /\ last.handler_calls = 0

\* a bot is rejected while its identity holds recorded requests
C5_Witness ==
  /\ last.op = "request" /\ last.status = 403
  /\ last.client_ip \in DOMAIN storage
  /\ storage[last.client_ip].minute # <<>>

(***************************************************************************)
(* C10: a request to the status route appends no timestamp to any window   *)
(* and leaves the identity's remaining figures as they were before it.     *)
(***************************************************************************)
C10_StatusDoesNotCommit ==
  (PassedBotCheck /\ last.endpoint = "status") =>
    /\ remaining_of(storage, last.client_ip, last.current_time)
         = remaining_of(last.before, last.client_ip, last.current_time)
    /\ \A i \in 1..Len(Windows) :
         IsSuffix(deques_of(storage, last.client_ip)[Windows[i]],
                  deques_of(last.before, last.client_ip)[Windows[i]])

(***************************************************************************)
(* Observations on a classified request.                                   *)
(***************************************************************************)
\* the user-agent header of the classified request, "" when absent
ua_sent == headers_get(last.req, "User-Agent").value

\* the user agent, compared case-insensitively, contains a whitelisted substring
HasWhitelisted(ua) ==
  \E i \in 1..Len(allowed_user_agents) : contains(lower(allowed_user_agents[i]), lower(ua))

\* the user agent, compared case-insensitively, contains a blacklisted substring
HasBlacklisted(ua) ==
  \E i \in 1..Len(bot_user_agent_patterns) :
    contains(lower(bot_user_agent_patterns[i]), lower(ua))

\* the user-agent header is absent, empty or only whitespace
BlankUserAgent(req) ==
  \/ "User-Agent" \notin DOMAIN req.headers
  \/ \A i \in 1..Len(req.headers["User-Agent"]) : req.headers["User-Agent"][i] \in Whitespace

(***************************************************************************)
(* C6: under every configuration a request whose non-empty user agent      *)
(* contains a whitelisted substring is allowed, also when the IP blacklist *)
(* is enforced and names the client.                                       *)
(***************************************************************************)
C6_WhitelistShortCircuits ==
  (last.op = "classify" /\ ua_sent # <<>> /\ HasWhitelisted(ua_sent)) => ~last.is_bot

(***************************************************************************)
(* C7: with the IP blacklist not enforced, a user agent that contains both *)
(* a whitelisted and a blacklisted substring (case-insensitively) is       *)
(* allowed, whatever the client identity.                                  *)
(***************************************************************************)
C7_WhitelistBeatsBlacklist ==
  ( /\ last.op = "classify"
    /\ ~BOT_PROTECTION_CONFIG.block_known_bot_ips
    /\ HasWhitelisted(ua_sent) /\ HasBlacklisted(ua_sent) ) => ~last.is_bot

\* such a user agent was classified while the pattern check is switched on
C7_Witness ==
  /\ last.op = "classify"
  /\ ~BOT_PROTECTION_CONFIG.block_known_bot_ips
  /\ BOT_PROTECTION_CONFIG.block_bot_user_agents
  /\ HasWhitelisted(ua_sent) /\ HasBlacklisted(ua_sent)
  /\ ~last.is_bot

(***************************************************************************)
(* C8: with require_user_agent on, a request whose user agent is absent,   *)
(* empty or whitespace is rejected as "Missing required headers" for every *)
(* identity, whatever the whitelist, blacklist and IP rules would say.     *)
(***************************************************************************)
C8_MissingUserAgentRejected ==
  ( /\ last.op = "classify"
    /\ BOT_PROTECTION_CONFIG.require_user_agent
    /\ BlankUserAgent(last.req) ) =>
      /\ last.is_bot
      /\ last.reason.msg = "Missing required headers"

\* a whitespace user agent from a client the enforced IP blacklist names
C8_Witness ==
  /\ last.op = "classify"
  /\ BOT_PROTECTION_CONFIG.require_user_agent
  /\ BOT_PROTECTION_CONFIG.block_known_bot_ips
  /\ last.client_ip \in BOT_PROTECTION_CONFIG.known_bot_ips
  /\ "User-Agent" \in DOMAIN last.req.headers /\ ua_sent # <<>>
  /\ BlankUserAgent(last.req)
  /\ last.is_bot /\ last.reason.msg = "Missing required headers"

(***************************************************************************)
(* C9: with block_bot_user_agents on, a user agent that contains a         *)
(* blacklisted substring (case-insensitively) and no whitelisted one is    *)
(* rejected with a reason that carries the offending user-agent string, in *)
(* which the pattern occurs; a request that carries the required headers,  *)
(* whose user agent contains no blacklisted substring and whose identity   *)
(* is not on the IP blacklist, is allowed.                                 *)
(***************************************************************************)
C9_BlacklistedUserAgentRejected ==
  (last.op = "classify" /\ BOT_PROTECTION_CONFIG.block_bot_user_agents) =>
    /\ (HasBlacklisted(ua_sent) /\ ~HasWhitelisted(ua_sent)) =>
         /\ last.is_bot
         /\ last.reason.msg = "Bot user agent detected: "
         /\ last.reason.user_agent = lower(ua_sent)
         /\ \E i \in 1..Len(bot_user_agent_patterns) :
              contains(bot_user_agent_patterns[i], last.reason.user_agent)
    /\ ( /\ ~(BOT_PROTECTION_CONFIG.require_user_agent /\ BlankUserAgent(last.req))
         /\ ~HasBlacklisted(ua_sent)
         /\ last.client_ip \notin BOT_PROTECTION_CONFIG.known_bot_ips ) => ~last.is_bot

\* python-requests/2.31.0 was rejected and the reason names it
C9_Witness ==
  /\ last.op = "classify"
  /\ BOT_PROTECTION_CONFIG.block_bot_user_agents
  /\ ua_sent = UA_PYREQ
  /\ last.is_bot
  /\ last.reason.user_agent = UA_PYREQ

(***************************************************************************)
(* C2: under every interleaving of the worker threads the check and the    *)
(* commit of one request are one step for the other requests of the same   *)
(* identity, so that the number of recorded timestamps inside a window     *)
(* never exceeds the window's ceiling.                                     *)
(***************************************************************************)
C2_CheckAndCommitAtomic ==
  \A id \in DOMAIN storage : \A i \in 1..Len(Windows) :
    count_within(storage[id][Windows[i]], clock,
                 window_seconds(RATE_LIMIT_CONFIG, Windows[i]))
      <= requests_per(RATE_LIMIT_CONFIG, Windows[i])

(***************************************************************************)
(* C11: under every interleaving of the worker threads, each remaining     *)
(* figure a request holds for its response (the X-RateLimit-Remaining-*    *)
(* headers) or hands to its route (g.rate_limit_info) is at least 0.       *)
(***************************************************************************)
C11_RemainingNeverNegative ==
  \A t \in Threads : \A i \in 1..Len(Windows) :
    /\ threads[t].remaining[Windows[i]] >= 0
    /\ threads[t].g_rate_limit_info[Windows[i]] >= 0

(***************************************************************************)
(* C12: under every interleaving of the worker threads no request ends in  *)
(* an unhandled fault: pruning never reads the head of, or pops from, an   *)
(* empty deque, and every request gets its defined answer.                 *)
(***************************************************************************)
C12_NoUnhandledFault ==
  \A t \in Threads : threads[t].response.status # 500

(***************************************************************************)
(* Observations on the limiter's operations.                               *)
(***************************************************************************)
\* the full ceilings, as remaining reports them for an identity without entries
full_ceilings ==
  [minute |-> RATE_LIMIT_CONFIG.requests_per_minute,
   hour   |-> RATE_LIMIT_CONFIG.requests_per_hour,
   day    |-> RATE_LIMIT_CONFIG.requests_per_day]

\* every window's ceiling is positive
PositiveCeilings ==
  \A i \in 1..Len(Windows) : requests_per(RATE_LIMIT_CONFIG, Windows[i]) > 0

(***************************************************************************)
(* C13: a reset of an identity that holds a record (in this machine a      *)
(* record is created only by a request that is then recorded) answers      *)
(* true (200), and right after it the identity's remaining figures are the *)
(* full ceilings of all three windows and, the ceilings being positive,    *)
(* its next admission check does not deny.                                 *)
(***************************************************************************)
C13_ResetRestoresQuota ==
  (last.op = "reset" /\ last.client_ip \in DOMAIN last.before) =>
    /\ last.status = 200
    /\ remaining_of(storage, last.client_ip, clock) = full_ceilings
    /\ PositiveCeilings => ~is_rate_limited(storage, last.client_ip, clock).result.limited

\* the reset identity was at a ceiling: its next request would have been denied
C13_Witness ==
  /\ last.op = "reset" /\ last.status = 200
  /\ last.client_ip \in DOMAIN last.before
  /\ is_rate_limited(last.before, last.client_ip, clock).result.limited
  /\ ~is_rate_limited(storage, last.client_ip, clock).result.limited

(***************************************************************************)
(* C14: a reset of an identity without a record answers false (404) and    *)
(* leaves the whole storage as it was; after any reset a second reset of   *)
(* the same identity answers false and leaves the storage as the first     *)
(* left it.                                                                *)
(***************************************************************************)
C14_ResetIdempotent ==
  last.op = "reset" =>
    /\ last.client_ip \notin DOMAIN last.before =>
         (last.status = 404 /\ storage = last.before)
    /\ reset_rate_limit(storage, last.client_ip) = [storage |-> storage, result |-> FALSE]

\* the first reset discarded recorded requests, so the second answers differently
C14_Witness ==
  /\ last.op = "reset" /\ last.status = 200
  /\ last.client_ip \in DOMAIN last.before
  /\ last.before[last.client_ip].day # <<>>
  /\ last.client_ip \notin DOMAIN storage

(***************************************************************************)
(* C15: a query of the remaining quota, or an admission check, for an      *)
(* identity that has no record does not leave a record behind: a reset of  *)
(* that identity right after it still answers false.                       *)
(***************************************************************************)
C15_QueryCreatesNoRecord ==
  ( /\ last.op \in {"is_rate_limited", "get_rate_limit_info"}
    /\ last.client_ip \notin DOMAIN last.before ) =>
      ~reset_rate_limit(storage, last.client_ip).result

(***************************************************************************)
(* C16: for an identity without recorded requests (it has no record, or    *)
(* its record holds no timestamp) a query of the remaining quota returns   *)
(* the full ceiling of the minute, hour and day windows, at every time.    *)
(***************************************************************************)
C16_UnseenHasFullQuota ==
  /\ ( /\ last.op = "get_rate_limit_info"
       /\ \A i \in 1..Len(Windows) :
            deques_of(last.before, last.client_ip)[Windows[i]] = <<>> ) =>
         last.result = full_ceilings
  /\ \A id \in Identities :
       (\A i \in 1..Len(Windows) : deques_of(storage, id)[Windows[i]] = <<>>) =>
         \A now \in 0..MaxClock : remaining_of(storage, id, now) = full_ceilings

\* a first query for one identity, late, while the other identity holds entries
C16_Witness ==
  /\ last.op = "get_rate_limit_info"
  /\ last.client_ip \notin DOMAIN last.before
  /\ last.current_time > 0
  /\ \E other \in DOMAIN last.before : last.before[other].minute # <<>>
  /\ last.result = full_ceilings

\* the entries of window_type that a request at last.current_time found and that are
\* at most one window old
live_found(window_type) ==
  count_within(deques_of(last.before, last.client_ip)[window_type], last.current_time,
               window_seconds(RATE_LIMIT_CONFIG, window_type))

(***************************************************************************)
(* C17: what a request counts for a window of duration W are exactly the   *)
(* entries with now - t <= W that it found: an entry with now >= t + W + 1 *)
(* counts neither toward the decision, nor toward the current count of a   *)
(* denial, nor toward the remaining figures of an admitted request (which  *)
(* also count the request itself).                                         *)
(***************************************************************************)
C17_PruningCorrect ==
  PassedBotCheck =>
    /\ last.status = 429 <=>
         \E i \in 1..Len(Windows) :
           live_found(Windows[i]) >= requests_per(RATE_LIMIT_CONFIG, Windows[i])
    /\ last.status = 429 => last.body.current = live_found(last.body.limit_type)
    /\ last.status = 200 =>
         /\ last.body.rate_limit_info =
              [minute |-> RATE_LIMIT_CONFIG.requests_per_minute - (live_found("minute") + 1),
               hour   |-> RATE_LIMIT_CONFIG.requests_per_hour - (live_found("hour") + 1),
               day    |-> RATE_LIMIT_CONFIG.requests_per_day - (live_found("day") + 1)]
         /\ RATE_LIMIT_CONFIG.enable_headers =>
              /\ last.headers["X-RateLimit-Remaining-Minute"] =
                   RATE_LIMIT_CONFIG.requests_per_minute - (live_found("minute") + 1)
              /\ last.headers["X-RateLimit-Remaining-Hour"] =
                   RATE_LIMIT_CONFIG.requests_per_hour - (live_found("hour") + 1)
              /\ last.headers["X-RateLimit-Remaining-Day"] =
                   RATE_LIMIT_CONFIG.requests_per_day - (live_found("day") + 1)

\* the request found a minute entry of age W + 1 and one of age W: with the first
\* counted the minute window would be at its ceiling, and the request is admitted
C17_Witness ==
  /\ PassedBotCheck /\ last.status = 200
  /\ LET dq == deques_of(last.before, last.client_ip).minute
     IN  /\ \E i \in 1..Len(dq) :
               last.current_time - dq[i] = RATE_LIMIT_CONFIG.minute_window + 1
         /\ \E j \in 1..Len(dq) : last.current_time - dq[j] = RATE_LIMIT_CONFIG.minute_window
         /\ Len(dq) >= RATE_LIMIT_CONFIG.requests_per_minute

(***************************************************************************)
(* C18: a 429 names the binding window, that window's configured ceiling   *)
(* and its current count (the length of its pruned deque, at or above the  *)
(* ceiling), and its retry_after, like the Retry-After header when headers *)
(* are enabled, is that window's configured duration, whatever the age of  *)
(* the oldest counted entry; under the shipped configuration that is 60,   *)
(* 3600 or 86400.                                                          *)
(***************************************************************************)
C18_DenialNamesWindow ==
  (last.op = "request" /\ last.status = 429) =>
    /\ \E i \in 1..Len(Windows) : last.body.limit_type = Windows[i]
    /\ last.body.limit = requests_per(RATE_LIMIT_CONFIG, last.body.limit_type)
    /\ last.body.current = Len(storage[last.client_ip][last.body.limit_type])
    /\ last.body.current >= last.body.limit
    /\ last.body.retry_after = window_seconds(RATE_LIMIT_CONFIG, last.body.limit_type)
    /\ RATE_LIMIT_CONFIG.enable_headers =>
         last.headers["Retry-After"] = window_seconds(RATE_LIMIT_CONFIG, last.body.limit_type)
    /\ [RATE_LIMIT_CONFIG EXCEPT !.enable_headers = TRUE] = DefaultRateLimitConfig =>
         last.body.retry_after \in {60, 3600, 86400}

\* a denial under the shipped configuration whose oldest counted entry is not new:
\* the hint is 60 although that entry expires sooner
C18_Witness ==
  /\ last.op = "request" /\ last.status = 429
  /\ RATE_LIMIT_CONFIG.minute_window = 60
  /\ last.body.limit_type = "minute" /\ last.body.retry_after = 60
  /\ last.current_time - Head(storage[last.client_ip].minute) > 0

\* the admission check for the identity of the last request, on the storage that
\* request left, at a later time: no request was recorded in between
denied_again_on(window_type, now) ==
  LET r == is_rate_limited(storage, last.client_ip, now).result
  IN  r.limited /\ r.window_type = window_type

(***************************************************************************)
(* C19: when a request is denied on window w at time t and nothing is      *)
(* recorded for its identity afterwards, an admission check at any time    *)
(* >= t + duration(w) is not denied on w.                                  *)
(***************************************************************************)
C19_RetryAfterSufficient ==
  (last.op = "request" /\ last.status = 429) =>
    \A now \in (last.current_time + last.body.retry_after)
                 ..(last.current_time + last.body.retry_after + MaxClock) :
      ~denied_again_on(last.body.limit_type, now)

(***************************************************************************)
(* C19 as amended: when a request is denied on a window w of positive      *)
(* ceiling at time t and nothing is recorded for its identity afterwards,  *)
(* an admission check at any time later than t + duration(w), in whole     *)
(* seconds >= t + duration(w) + 1, is not denied on w.                     *)
(***************************************************************************)
C19_RetryAfterElapsed ==
  ( /\ last.op = "request" /\ last.status = 429
    /\ requests_per(RATE_LIMIT_CONFIG, last.body.limit_type) > 0 ) =>
    \A now \in (last.current_time + last.body.retry_after + 1)
                 ..(last.current_time + last.body.retry_after + 1 + MaxClock) :
      ~denied_again_on(last.body.limit_type, now)

\* a denial in the very second of the entries that fill the window: still denied when
\* the hint has just elapsed, no longer one second later
C19_Witness ==
  /\ last.op = "request" /\ last.status = 429
  /\ denied_again_on(last.body.limit_type, last.current_time + last.body.retry_after)
  /\ ~denied_again_on(last.body.limit_type, last.current_time + last.body.retry_after + 1)

\* the position of a window in the order is_rate_limited visits them
window_index(window_type) == CHOOSE i \in 1..Len(Windows) : Windows[i] = window_type

(***************************************************************************)
(* C20: the windows are tested in the order minute, hour, day and the      *)
(* first at its ceiling decides.  A denial names a window that is at or    *)
(* above its ceiling; every finer window had capacity left (a denial on    *)
(* hour means minute was below its ceiling), so the named window is the    *)
(* finest one at its ceiling; and the deques of the coarser windows are    *)
(* left exactly as the request found them, stale entries included.         *)
(***************************************************************************)
C20_FinestWindowDecides ==
  (last.op = "request" /\ last.status = 429) =>
    LET k == window_index(last.body.limit_type)
    IN  /\ live_found(Windows[k]) >= requests_per(RATE_LIMIT_CONFIG, Windows[k])
        /\ \A j \in 1..(k - 1) :
             live_found(Windows[j]) < requests_per(RATE_LIMIT_CONFIG, Windows[j])
        /\ \A j \in (k + 1)..Len(Windows) :
             storage[last.client_ip][Windows[j]]
               = deques_of(last.before, last.client_ip)[Windows[j]]

\* a denial on minute that leaves in the hour deque, itself at its ceiling in length,
\* an entry older than an hour
C20_Witness ==
  /\ last.op = "request" /\ last.status = 429
  /\ last.body.limit_type = "minute"
  /\ RATE_LIMIT_CONFIG.requests_per_minute > 0
  /\ LET dq == storage[last.client_ip].hour
     IN  /\ Len(dq) >= RATE_LIMIT_CONFIG.requests_per_hour
         /\ is_old(last.current_time, Head(dq), RATE_LIMIT_CONFIG.hour_window)

\* some window's ceiling is zero
SomeZeroCeiling ==
  \E i \in 1..Len(Windows) : requests_per(RATE_LIMIT_CONFIG, Windows[i]) = 0

(***************************************************************************)
(* C21: when the ceiling of some window is zero, every admission check of  *)
(* every identity is denied, with a current count of 0 for an identity     *)
(* that had no record, no request is ever recorded (every deque stays      *)
(* empty), and the check ends with a defined result.                       *)
(***************************************************************************)
C21_ZeroCeilingDeniesAll ==
  SomeZeroCeiling =>
    /\ last.op = "is_rate_limited" =>
         /\ last.result.limited
         /\ last.result.limit = 0
         /\ requests_per(RATE_LIMIT_CONFIG, last.result.window_type) = 0
         /\ last.client_ip \notin DOMAIN last.before => last.result.current = 0
    /\ last.op # "record_request"
    /\ \A id \in DOMAIN storage : storage[id] = new_record

\* an identity without history is denied on the day window, whose ceiling is the zero
\* one, after the minute and hour windows let it pass
C21_Witness ==
  /\ SomeZeroCeiling
  /\ last.op = "is_rate_limited"
  /\ last.client_ip \notin DOMAIN last.before
  /\ last.current_time > 0
  /\ last.result.limited /\ last.result.window_type = "day" /\ last.result.current = 0

(***************************************************************************)
(* C22: under a clock that may move backward, a pruning access (an         *)
(* admission check or a remaining query) ends normally and leaves in each  *)
(* deque a tail of what it found, in the same order; every entry it        *)
(* dropped is older than the window at the time read; when the time read   *)
(* is earlier than every stored timestamp nothing is dropped, and a        *)
(* remaining query then counts every stored entry.                         *)
(***************************************************************************)
C22_BackwardClockKeepsEntries ==
  last.op \in {"is_rate_limited", "get_rate_limit_info"} =>
    \A i \in 1..Len(Windows) :
      LET found == deques_of(last.before, last.client_ip)[Windows[i]]
          left == storage[last.client_ip][Windows[i]]
          window == window_seconds(RATE_LIMIT_CONFIG, Windows[i])
      IN  /\ IsSuffix(left, found)
          /\ \A k \in 1..(Len(found) - Len(left)) : last.current_time - found[k] > window
          /\ (\A k \in 1..Len(found) : found[k] > last.current_time) =>
               /\ left = found
               /\ last.op = "get_rate_limit_info" =>
                    last.result[Windows[i]]
                      = requests_per(RATE_LIMIT_CONFIG, Windows[i]) - Len(found)

\* a remaining query made at a time earlier than the two entries of the minute deque,
\* the older of them more than a window ahead of it
C22_Witness ==
  /\ last.op = "get_rate_limit_info"
  /\ LET found == deques_of(last.before, last.client_ip).minute
     IN  /\ Len(found) = 2
         /\ \A k \in 1..Len(found) : found[k] > last.current_time
         /\ found[1] - last.current_time > RATE_LIMIT_CONFIG.minute_window
         /\ storage[last.client_ip].minute = found
  /\ last.result.minute = 0

(***************************************************************************)
(* Observations on the routes behind the gate.                             *)
(***************************************************************************)
\* the last step was a request that the gate admitted: its route was called
Admitted == last.op \in {"request", "try_on"} /\ last.handler_calls = 1

\* the response header that carries the remaining figure of a window
remaining_header(window_type) ==
  CASE window_type = "minute" -> "X-RateLimit-Remaining-Minute"
    [] window_type = "hour" -> "X-RateLimit-Remaining-Hour"
    [] window_type = "day" -> "X-RateLimit-Remaining-Day"

(***************************************************************************)
(* C23: with enable_headers on, the outcome of every admitted request,     *)
(* whether its route answered with a bare response or with a (response,    *)
(* status) pair such as a 400, carries for each window a remaining header  *)
(* equal to the ceiling minus the entries in the window once the request   *)
(* itself is recorded, which is also what a remaining query gives on the   *)
(* storage the request left.                                               *)
(***************************************************************************)
C23_HeadersOnEveryAdmittedOutcome ==
  (Admitted /\ RATE_LIMIT_CONFIG.enable_headers) =>
    \A i \in 1..Len(Windows) :
      /\ remaining_header(Windows[i]) \in DOMAIN last.headers
      /\ last.headers[remaining_header(Windows[i])]
           = requests_per(RATE_LIMIT_CONFIG, Windows[i]) - (live_found(Windows[i]) + 1)
      /\ last.headers[remaining_header(Windows[i])]
           = remaining_of(storage, last.client_ip, last.current_time)[Windows[i]]

\* a try-on request, not the first of its minute, that the route answers with a
\* (response, 400) pair
C23_Witness ==
  /\ Admitted /\ RATE_LIMIT_CONFIG.enable_headers
  /\ last.op = "try_on" /\ last.status = 400
  /\ live_found("minute") >= 1
  /\ last.headers["X-RateLimit-Remaining-Minute"]
       = RATE_LIMIT_CONFIG.requests_per_minute - (live_found("minute") + 1)

\* dq is non-decreasing from head to tail
NonDecreasing(dq) == \A k \in 1..(Len(dq) - 1) : dq[k] <= dq[k + 1]

(***************************************************************************)
(* C24: with a clock that never goes back, under every interleaving of the *)
(* worker threads, each of the three deques of every identity is           *)
(* non-decreasing from head to tail.                                       *)
(***************************************************************************)
C24_DequesNonDecreasing ==
  \A id \in DOMAIN storage : \A i \in 1..Len(Windows) :
    NonDecreasing(storage[id][Windows[i]])

\* every entry of dq is at most window old at current_time, and none is ahead of it
AllWithin(dq, current_time, window) ==
  \A k \in 1..Len(dq) : dq[k] <= current_time /\ current_time - dq[k] <= window

\* the windows an admission check evaluated: up to the one that denied, or all three
evaluated_windows(result) ==
  IF result.limited THEN 1..window_index(result.window_type) ELSE 1..Len(Windows)

(***************************************************************************)
(* C25: with operations made one at a time under a clock that never goes   *)
(* back, after a remaining query, and after an admission check for each    *)
(* window it evaluated, every timestamp left in the window's deque is at   *)
(* most the window's duration old, and the figures returned count exactly  *)
(* the entries found that are in the window.  Stale entries go only then:  *)
(* a window the check did not evaluate and a record leave them in place.   *)
(***************************************************************************)
C25_ObservedEntriesInWindow ==
  /\ last.op = "get_rate_limit_info" =>
       \A i \in 1..Len(Windows) :
         /\ AllWithin(storage[last.client_ip][Windows[i]], last.current_time,
                      window_seconds(RATE_LIMIT_CONFIG, Windows[i]))
         /\ last.result[Windows[i]]
              = requests_per(RATE_LIMIT_CONFIG, Windows[i]) - live_found(Windows[i])
  /\ last.op = "is_rate_limited" =>
       /\ \A i \in evaluated_windows(last.result) :
            AllWithin(storage[last.client_ip][Windows[i]], last.current_time,
                      window_seconds(RATE_LIMIT_CONFIG, Windows[i]))
       /\ \A i \in (1..Len(Windows)) \ evaluated_windows(last.result) :
            storage[last.client_ip][Windows[i]]
              = deques_of(last.before, last.client_ip)[Windows[i]]
       /\ last.result.limited => last.result.current = live_found(last.result.window_type)
  /\ last.op = "record_request" =>
       \A i \in 1..Len(Windows) :
         storage[last.client_ip][Windows[i]]
           = Append(deques_of(last.before, last.client_ip)[Windows[i]], last.current_time)

\* a remaining query that found two stale entries at the head of the minute deque,
\* left there while the clock advanced, and removed them
C25_Witness ==
  /\ last.op = "get_rate_limit_info"
  /\ LET found == deques_of(last.before, last.client_ip).minute
     IN  /\ Len(found) >= 2
         /\ is_old(last.current_time, found[2], RATE_LIMIT_CONFIG.minute_window)
         /\ Len(storage[last.client_ip].minute) = live_found("minute")

(***************************************************************************)
(* Observations on a resolved identity.                                    *)
(***************************************************************************)
\* the part of v before its first comma, without the whitespace at its two ends
first_value_trimmed(v) ==
  LET commas == {k \in 1..Len(v) : v[k] = ","}
      stop == IF commas = {} THEN Len(v) + 1
              ELSE CHOOSE k \in commas : \A m \in commas : k <= m
      solid == {k \in 1..(stop - 1) : v[k] \notin Whitespace}
  IN  IF solid = {} THEN <<>>
      ELSE SubSeq(v, CHOOSE a \in solid : \A m \in solid : a <= m,
                     CHOOSE b \in solid : \A m \in solid : b >= m)

(***************************************************************************)
(* C26: the identity of a request is the trimmed first comma-separated     *)
(* value of X-Forwarded-For if that header is present, otherwise the value *)
(* of X-Real-IP if that header is present, otherwise the peer address, for *)
(* every request, malformed header values included.                       *)
(***************************************************************************)
C26_IdentityPriority ==
  last.op = "identify" =>
    last.client_ip =
      IF "X-Forwarded-For" \in DOMAIN last.req.headers
      THEN first_value_trimmed(last.req.headers["X-Forwarded-For"])
      ELSE IF "X-Real-IP" \in DOMAIN last.req.headers
           THEN last.req.headers["X-Real-IP"]
           ELSE last.req.remote_addr

(***************************************************************************)
(* C26 as amended: the identity of a request is the trimmed first          *)
(* comma-separated value of X-Forwarded-For if that header is present with *)
(* a non-empty value, otherwise the value of X-Real-IP if that header is   *)
(* present with a non-empty value, otherwise the peer address, for every   *)
(* request, malformed header values included.                              *)
(***************************************************************************)
C26_IdentityPriorityNonEmpty ==
  last.op = "identify" =>
    last.client_ip =
      IF headers_get(last.req, "X-Forwarded-For").value # <<>>
      THEN first_value_trimmed(last.req.headers["X-Forwarded-For"])
      ELSE IF headers_get(last.req, "X-Real-IP").value # <<>>
           THEN last.req.headers["X-Real-IP"]
           ELSE last.req.remote_addr

\* an empty X-Forwarded-For next to a non-empty X-Real-IP: the identity is the latter
C26_Witness ==
  /\ last.op = "identify"
  /\ "X-Forwarded-For" \in DOMAIN last.req.headers
  /\ last.req.headers["X-Forwarded-For"] = <<>>
  /\ "X-Real-IP" \in DOMAIN last.req.headers
  /\ last.req.headers["X-Real-IP"] = IP_B
  /\ last.req.remote_addr = IP_A
  /\ last.client_ip = IP_B

(***************************************************************************)
(* C27: a request that passes the bot check and the rate check leaves in   *)
(* each of the three deques of its identity the in-window entries it found *)
(* followed by exactly one new timestamp, the time of the request; the     *)
(* route is called after that (the figures /health and /rate-limit/status  *)
(* put in their bodies already count it), and the timestamp is there       *)
(* whatever the route answers, a 400 included.                             *)
(***************************************************************************)
C27_RecordBeforeHandler ==
  Admitted =>
    \A i \in 1..Len(Windows) :
      LET found == deques_of(last.before, last.client_ip)[Windows[i]]
          left == storage[last.client_ip][Windows[i]]
      IN  /\ Len(left) = live_found(Windows[i]) + 1
          /\ left[Len(left)] = last.current_time
          /\ IsSuffix(SubSeq(left, 1, Len(left) - 1), found)
          /\ last.endpoint \in {"health", "status"} =>
               last.body.rate_limit_info[Windows[i]]
                 = requests_per(RATE_LIMIT_CONFIG, Windows[i]) - Len(left)

\* a try-on request answered 400 by its route: its timestamp is the newest entry of
\* the day deque, behind the entries of earlier requests
C27_Witness ==
  /\ Admitted /\ last.op = "try_on" /\ last.status = 400
  /\ LET found == deques_of(last.before, last.client_ip).day
         left == storage[last.client_ip].day
     IN  /\ found # <<>>
         /\ left = Append(found, last.current_time)

(***************************************************************************)
(* C29: the classifier tries its rules in one order and the first rule     *)
(* that matches gives the reason: the missing user agent, then the         *)
(* user-agent blacklist, then the IP blacklist.  A blacklisted user agent  *)
(* from a blacklisted IP is rejected for its user agent; a user agent that *)
(* is neither blacklisted nor whitelisted, from a blacklisted IP, is       *)
(* rejected exactly when the IP blacklist is enforced, as "Known bot IP";  *)
(* a request that matches no rule is allowed.                              *)
(***************************************************************************)
MissingRule == BOT_PROTECTION_CONFIG.require_user_agent /\ BlankUserAgent(last.req)

UserAgentRule ==
  /\ BOT_PROTECTION_CONFIG.block_bot_user_agents
  /\ HasBlacklisted(ua_sent) /\ ~HasWhitelisted(ua_sent)

IpRule ==
  /\ BOT_PROTECTION_CONFIG.block_known_bot_ips
  /\ last.client_ip \in BOT_PROTECTION_CONFIG.known_bot_ips

C29_FirstMatchingRuleDecides ==
  last.op = "classify" =>
    /\ MissingRule => (last.is_bot /\ last.reason.msg = "Missing required headers")
    /\ (~MissingRule /\ UserAgentRule) =>
         (last.is_bot /\ last.reason.msg = "Bot user agent detected: ")
    /\ (~MissingRule /\ ~UserAgentRule /\ IpRule) =>
         (last.is_bot /\ last.reason.msg = "Known bot IP")
    /\ (~MissingRule /\ ~UserAgentRule /\ ~IpRule) =>
         (~last.is_bot /\ last.reason = NoReason)
    /\ ( /\ ~BlankUserAgent(last.req)
         /\ ~HasBlacklisted(ua_sent) /\ ~HasWhitelisted(ua_sent)
         /\ last.client_ip \in BOT_PROTECTION_CONFIG.known_bot_ips ) =>
           /\ last.is_bot = BOT_PROTECTION_CONFIG.block_known_bot_ips
           /\ last.is_bot => last.reason.msg = "Known bot IP"

\* python-requests/2.31.0 from a client the enforced IP blacklist names was
\* rejected for its user agent
C29_Witness ==
  /\ last.op = "classify"
  /\ ~MissingRule /\ UserAgentRule /\ IpRule
  /\ last.is_bot /\ last.reason.msg = "Bot user agent detected: "
  /\ last.reason.user_agent = UA_PYREQ

\* a user agent on neither list, from a client the IP blacklist names, was
\* rejected as a known bot IP
C29_WitnessCleanUserAgent ==
  /\ last.op = "classify"
  /\ ~BlankUserAgent(last.req)
  /\ ~HasBlacklisted(ua_sent) /\ ~HasWhitelisted(ua_sent)
  /\ IpRule
  /\ last.is_bot /\ last.reason.msg = "Known bot IP"

(***************************************************************************)
(* C30: with the limiter's operations called one at a time, a remaining    *)
(* query at time now is idempotent and read-only for what callers can      *)
(* observe: asked again at the same now it gives the same answer and       *)
(* changes nothing more; for every identity and every time from now on,    *)
(* the admission decision and the remaining figures computed on the        *)
(* storage it leaves equal those computed on the storage it found; and     *)
(* what it leaves of each deque is the found deque less a prefix of        *)
(* entries that were out of the window at now, the other identities'       *)
(* records being untouched.                                                *)
(***************************************************************************)
C30_RemainingReadOnly ==
  last.op = "get_rate_limit_info" =>
    /\ get_remaining_requests(storage, last.client_ip, last.current_time)
         = [storage |-> storage, result |-> last.result]
    /\ \A id \in Identities : \A t \in last.current_time..MaxClock :
         /\ is_rate_limited(storage, id, t).result
              = is_rate_limited(last.before, id, t).result
         /\ remaining_of(storage, id, t) = remaining_of(last.before, id, t)
    /\ \A i \in 1..Len(Windows) :
         LET found == deques_of(last.before, last.client_ip)[Windows[i]]
             left == storage[last.client_ip][Windows[i]]
         IN  /\ IsSuffix(left, found)
             /\ \A k \in 1..(Len(found) - Len(left)) :
                  is_old(last.current_time, found[k],
                         window_seconds(RATE_LIMIT_CONFIG, Windows[i]))
    /\ \A id \in DOMAIN last.before \ {last.client_ip} : storage[id] = last.before[id]

\* a query evicted a stale entry and kept a live one of the same deque, at a
\* time after which more queries can follow
C30_Witness ==
  /\ last.op = "get_rate_limit_info"
  /\ last.current_time < MaxClock
  /\ last.client_ip \in DOMAIN last.before
  /\ LET found == last.before[last.client_ip].minute
         left == storage[last.client_ip].minute
     IN  /\ left # <<>>
         /\ Len(left) < Len(found)

(***************************************************************************)
(* C31: under every interleaving of the worker threads, every step that    *)
(* removes an entry from a deque removes its head, and that head is older  *)
(* than the window's duration at the moment of the step: no entry still    *)
(* inside the window is dropped by two prunes running together.            *)
(***************************************************************************)
C31_PrunedEntriesAreOld ==
  [][\A id \in DOMAIN storage \cap DOMAIN storage' : \A i \in 1..Len(Windows) :
       Len(storage'[id][Windows[i]]) < Len(storage[id][Windows[i]]) =>
         /\ storage'[id][Windows[i]] = Tail(storage[id][Windows[i]])
         /\ is_old(clock, Head(storage[id][Windows[i]]),
                   window_seconds(RATE_LIMIT_CONFIG, Windows[i]))]_vars

(***************************************************************************)
(* C32: with the limiter's operations called one at a time, an operation   *)
(* on one identity (is_rate_limited, record_request, get_rate_limit_info,  *)
(* reset_rate_limit) leaves every other identity as it was: the same       *)
(* record or absence of one, and, at every time from now on, the same      *)
(* remaining figures and the same admission decision.                      *)
(***************************************************************************)
C32_IdentitiesIsolated ==
  last.op \in {"is_rate_limited", "record_request", "get_rate_limit_info", "reset"} =>
    \A other \in Identities \ {last.client_ip} :
      /\ (other \in DOMAIN storage) = (other \in DOMAIN last.before)
      /\ deques_of(storage, other) = deques_of(last.before, other)
      /\ \A t \in last.current_time..MaxClock :
           /\ remaining_of(storage, other, t) = remaining_of(last.before, other, t)
           /\ is_rate_limited(storage, other, t).result
                = is_rate_limited(last.before, other, t).result

\* one identity was reset while the other held entries and had used up a ceiling
C32_Witness ==
  /\ last.op = "reset" /\ last.status = 200
  /\ last.before[last.client_ip].minute # <<>>
  /\ \E other \in Identities \ {last.client_ip} :
       /\ other \in DOMAIN storage
       /\ storage[other].minute # <<>>
       /\ is_rate_limited(storage, other, last.current_time).result.limited

(***************************************************************************)
(* C33: with the limiter's operations called one at a time and a clock     *)
(* that never goes back, in every state between operations each            *)
(* identity's minute deque is a suffix of its hour deque and its hour      *)
(* deque a suffix of its day deque, so that the minute count is at most    *)
(* the hour count and the hour count at most the day count.                *)
(***************************************************************************)
C33_FinerIsSuffixOfCoarser ==
  \A id \in DOMAIN storage :
    /\ IsSuffix(storage[id].minute, storage[id].hour)
    /\ IsSuffix(storage[id].hour, storage[id].day)
    /\ Len(storage[id].minute) <= Len(storage[id].hour)
    /\ Len(storage[id].hour) <= Len(storage[id].day)

\* an identity whose three deques differ: each finer one a proper, non-empty
\* suffix of the next coarser one
C33_Witness ==
  \E id \in DOMAIN storage :
    /\ storage[id].minute # <<>>
    /\ Len(storage[id].minute) < Len(storage[id].hour)
    /\ Len(storage[id].hour) < Len(storage[id].day)
    /\ IsSuffix(storage[id].minute, storage[id].hour)
    /\ IsSuffix(storage[id].hour, storage[id].day)

(***************************************************************************)
(* C34: with requests served one at a time, the live entries of a window   *)
(* never outnumber its ceiling, and every 429 reports current >= limit     *)
(* and in fact current = limit for the window it names, so that the        *)
(* X-RateLimit-Remaining of 0 it sends is what get_remaining_requests      *)
(* gives for that window at that time.                                     *)
(***************************************************************************)
C34_DeniedAtCeiling ==
  /\ \A id \in DOMAIN storage : \A i \in 1..Len(Windows) :
       count_within(storage[id][Windows[i]], clock,
                    window_seconds(RATE_LIMIT_CONFIG, Windows[i]))
         <= requests_per(RATE_LIMIT_CONFIG, Windows[i])
  /\ (last.op = "request" /\ last.status = 429) =>
       /\ last.body.current >= last.body.limit
       /\ last.body.current = last.body.limit
       /\ remaining_of(storage, last.client_ip, last.current_time)[last.body.limit_type] = 0
       /\ RATE_LIMIT_CONFIG.enable_headers =>
            last.headers["X-RateLimit-Remaining"]
              = remaining_of(storage, last.client_ip, last.current_time)[last.body.limit_type]

\* a denial on the hour window, the minute window having room
C34_Witness ==
  /\ last.op = "request" /\ last.status = 429
  /\ last.body.limit_type = "hour"
  /\ last.body.limit > 0
  /\ last.body.current = last.body.limit
  /\ RATE_LIMIT_CONFIG.enable_headers
  /\ last.headers["X-RateLimit-Remaining"] = 0
  /\ Len(storage[last.client_ip].minute) < RATE_LIMIT_CONFIG.requests_per_minute

\* the same under every interleaving of the worker threads: a 429 is answered
\* only on a count that has reached the ceiling
C34_DeniedAtOrAboveCeilingThreaded ==
  \A t \in Threads :
    threads[t].response.status = 429 =>
      threads[t].response.current >= threads[t].response.limit

(***************************************************************************)
(* C35: with requests served one at a time, headers on or off, the route   *)
(* behind the gate runs once for a request that passes the bot check and   *)
(* the rate check and not at all for one answered 401, 403 or 429; a       *)
(* request that was not rejected as a bot runs the route exactly when      *)
(* is_rate_limited on the storage it found does not deny it.  With         *)
(* enable_headers off an admitted request is still recorded in the three   *)
(* deques and the answer is the route's own, with no quota header.         *)
(***************************************************************************)
C35_HandlerRunsOnceIfAdmitted ==
  last.op \in {"request", "try_on"} =>
    /\ last.handler_calls \in {0, 1}
    /\ last.handler_calls = 0 <=> last.status \in {401, 403, 429}
    /\ last.status \notin {401, 403} =>
         (last.handler_calls = 1
            <=> ~is_rate_limited(last.before, last.client_ip, last.current_time).result.limited)
    /\ (last.handler_calls = 1 /\ ~RATE_LIMIT_CONFIG.enable_headers) =>
         /\ last.headers = NoResponseHeaders
         /\ \A i \in 1..Len(Windows) :
              LET left == storage[last.client_ip][Windows[i]]
              IN  /\ Len(left) = live_found(Windows[i]) + 1
                  /\ left[Len(left)] = last.current_time
         /\ last.endpoint = "health" =>
              [status |-> last.status, body |-> last.body]
                = [status |-> 200,
                   body |-> health_check(storage, last.client_ip,
                                         remaining_of(storage, last.client_ip,
                                                      last.current_time),
                                         last.current_time).body]
         /\ last.endpoint = "status" =>
              [status |-> last.status, body |-> last.body]
                = [status |-> 200,
                   body |-> rate_limit_status(storage, last.client_ip,
                                              remaining_of(storage, last.client_ip,
                                                           last.current_time),
                                              last.current_time).body]
         /\ last.endpoint = "instafit" => last.status \in {200, 400}

\* with the headers off, a try-on request was admitted, recorded next to an
\* earlier entry and answered by the route with its 400
C35_Witness ==
  /\ last.op = "try_on" /\ last.handler_calls = 1
  /\ ~RATE_LIMIT_CONFIG.enable_headers
  /\ last.status = 400
  /\ last.headers = NoResponseHeaders
  /\ live_found("minute") >= 1
  /\ Len(storage[last.client_ip].minute) = live_found("minute") + 1

\* with the headers off, requests were turned away by the rate check and by the
\* bot check without the route running
C35_WitnessDenied ==
  /\ last.op \in {"request", "try_on"} /\ last.handler_calls = 0
  /\ ~RATE_LIMIT_CONFIG.enable_headers
  /\ last.status = 429

C35_WitnessBot ==
  /\ last.op \in {"request", "try_on"} /\ last.handler_calls = 0
  /\ ~RATE_LIMIT_CONFIG.enable_headers
  /\ last.status = 403

(***************************************************************************)
(* C36: on /instafit, served one at a time, the API key is looked at       *)
(* before the gate.  In every reachable state and for every try-on         *)
(* request: without a valid key the answer is 401, whatever the bot check  *)
(* and the rate check would say, the storage is left exactly as found (no  *)
(* record, no pruning, no entry) and the route does not run; with a valid  *)
(* key the bot check answers first (403, storage untouched), then the rate *)
(* check (429), and only then the request is recorded and the route runs.  *)
(***************************************************************************)
CarriesValidKey(req) ==
  "Authorization" \in DOMAIN req.headers /\ req.headers["Authorization"] = AUTH_TEST

C36_AuthenticationBeforeGate ==
  /\ \A req \in TryOnRequests :
       \A out \in {require_api_key(storage, req, "instafit", clock)} :
         LET client_ip == get_client_ip(req)
             bot == is_bot(req, client_ip).is_bot
             limited == is_rate_limited(storage, client_ip, clock).result.limited
         IN  /\ ~CarriesValidKey(req) =>
                  /\ out.status = 401
                  /\ out.body.error \in {"API key required", "Invalid API key"}
                  /\ out.storage = storage
                  /\ out.handler_calls = 0
                  /\ out.headers = NoResponseHeaders
             /\ (CarriesValidKey(req) /\ bot) =>
                  (out.status = 403 /\ out.storage = storage /\ out.handler_calls = 0)
             /\ (CarriesValidKey(req) /\ ~bot /\ limited) =>
                  (out.status = 429 /\ out.handler_calls = 0)
             /\ (CarriesValidKey(req) /\ ~bot /\ ~limited) =>
                  /\ out.handler_calls = 1
                  /\ out.status \in {200, 400}
                  /\ \A i \in 1..Len(Windows) :
                       LET left == out.storage[client_ip][Windows[i]]
                       IN  left # <<>> /\ left[Len(left)] = clock
  /\ (last.op = "try_on" /\ last.status = 401) =>
       /\ storage = last.before
       /\ last.handler_calls = 0

\* a try-on request without a valid key was answered 401 while its identity held
\* entries and was at a ceiling, and the storage is as it was found
C36_Witness ==
  /\ last.op = "try_on" /\ last.status = 401
  /\ last.client_ip \in DOMAIN last.before
  /\ last.before[last.client_ip].minute # <<>>
  /\ is_rate_limited(last.before, last.client_ip, last.current_time).result.limited
  /\ storage = last.before

====
